---- MODULE Spec2Model ----
(***************************************************************************)
(* Model of the fincaBack REST backend: the global JWT hook, the auth and  *)
(* user endpoints, the in-memory TTL result cache with its decorators and  *)
(* the ETag helper, and the write endpoints of the herd: animals, breeds,  *)
(* vaccinations, treatments and field assignments.                         *)
(*                                                                         *)
(* One action is one whole HTTP request: the before_request hooks, the     *)
(* decorators around the handler and the handler body.  Requests are the   *)
(* ones whose Content-Length is within max_content_length, for which       *)
(* SecurityMiddleware.security_checks (middleware.py:191-216) returns None.*)
(***************************************************************************)
EXTENDS Integers, Sequences, FiniteSets, TLC

VARIABLES
    users,      \* the user table, a sequence of rows; the row's id is its index
    species,    \* the species table: id -> name, NoRow when the id is unused
    now,        \* the clock (datetime.utcnow()), in ticks
    jar,        \* what the client keeps: the cookies [access, refresh], the
                \* ETag of the last response that carried one, and the
                \* access token read from the last body that carried one
    req,        \* the request processed last
    resp,       \* the response to it
    cache,      \* CacheManager._cache, a dictionary: key -> entry
    threads,    \* the request threads inside a CacheManager method
    lastSet,    \* history: per key, the most recent set not removed since
    everSet,    \* history: per key, the values ever set
    got,        \* history: the key and the result of the get made last
    animals,    \* the animals table, a sequence of rows; the id is the index
    breeds,     \* the ids of the rows of the breeds table
    vaccinations,   \* the vaccinations table, a sequence of rows
    treatments,     \* the treatments table, a sequence of rows
    animal_fields,  \* the animal_fields table, a sequence of rows
    fields,         \* the fields table, a sequence of rows; the id is the index
    session,    \* db.session: the rows added and not yet committed
    alerts      \* the alerts the queries of the alerts endpoint produce from
                \* the tables, in the order the handler appends them

vars == <<users, species, now, jar, req, resp, cache, threads, lastSet, everSet, got,
          animals, breeds, vaccinations, treatments, animal_fields, fields,
          session, alerts>>

\* the tables of the herd and the unit of work on them
farm == <<animals, breeds, vaccinations, treatments, animal_fields, fields,
          session, alerts>>

\* the variables of the cache exercised directly, and the rest
direct == <<threads, lastSet, everSet, got>>

served == <<users, species, jar, req, resp>>

----------------------------------------------------------------------------
(* Bounds of the model *)

MaxTime == 2
MaxUsers == 3
MaxIdent == 3
MaxAddrs == 2
MaxTtl == 2
MaxThreads == 2
DefaultTtl == 1
AccessTicks == 2
RefreshTicks == 3
MaxAnimals == 3
MaxVaccinations == 2
MaxTreatments == 2

----------------------------------------------------------------------------
(* Values *)

Roles == {"Aprendiz", "Instructor", "Administrador"}

Passwords == {"", "clave-uno", "clave-dos"}

Emails == {"a@finca.co", "b@finca.co", "c@finca.co"}

NoRow == "<none>"

\* the names a PUT on a species carries
Names == {"Ovino"}

SpeciesIds == {1, 2}

\* werkzeug generate_password_hash / check_password_hash
GeneratePasswordHash(pw) == <<"pbkdf2", pw>>

\* a check that accepts any password
AnyPassword(hash, pw) == TRUE

CheckPasswordHash(hash, pw) == hash = GeneratePasswordHash(pw)

\* str(user.id): a Python str carrying the id
PyStr(v) == [pytype |-> "str", val |-> v]

\* x.get(k) exists on a dict and raises AttributeError on a str
HasGet(x) == x.pytype = "dict"

NoToken == [typ |-> "none", sub |-> PyStr(0), role |-> "", exp |-> 0]

\* a cookie value that is no JWT signed with JWT_SECRET_KEY
Garbage == [typ |-> "garbage", sub |-> PyStr(0), role |-> "", exp |-> 0]

\* create_access_token(identity, additional_claims, expires_delta)
CreateAccessToken(identity, role, t) ==
    [typ |-> "access", sub |-> identity, role |-> role, exp |-> t + AccessTicks]

\* create_refresh_token(identity, additional_claims)
CreateRefreshToken(identity, role, t) ==
    [typ |-> "refresh", sub |-> identity, role |-> role, exp |-> t + RefreshTicks]

\* flask_jwt_extended decodes the cookie: signature, expiry and token type
DecodesAs(tok, typ, t) == tok.typ = typ /\ tok.exp > t

----------------------------------------------------------------------------
(* The global hook *)

public_paths ==
    {"/login", "/logout", "/refresh",
     "/api-documentation", "/docs", "/docs/", "/docs/interactive", "/docs/tester",
     "/api/v1/docs/", "/api/v1/docs", "/swaggerui", "/swagger.json",
     "/api/v1/swagger.json",
     "/swaggerui/droid-sans.css", "/swaggerui/swagger-ui.css",
     "/swaggerui/swagger-ui-bundle.js", "/swaggerui/swagger-ui-standalone-preset.js",
     "/swaggerui/favicon-32x32.png", "/swaggerui/favicon-16x16.png",
     "/metrics", "/health", "/api/v1/health",
     "/api/v1/analytics/dashboard", "/api/v1/analytics/alerts",
     "/api/v1/auth/login", "/api/v1/login",
     "/debug-jwt-config", "/debug-jwt-config1", "/debug-config", "/debug-cookies",
     "/debug-time", "/debug-token-detailed", "/debug-complete",
     "/", "/favicon.ico"}

\* path.startswith('/static/'): the static paths of the model
StaticPaths == {"/static/app.js"}

PathLogin == "/api/v1/auth/login"
PathRefresh == "/api/v1/auth/refresh"
PathLogout == "/api/v1/auth/logout"
PathUsers == "/api/v1/users/"
PathSpecies == "/api/v1/breeds-species/species/<id>"
PathSpeciesList == "/api/v1/breeds-species/species"
PathDashboard == "/api/v1/analytics/dashboard"
PathAlerts == "/api/v1/analytics/alerts"
PathAnimals == "/api/v1/animals/"

\* The role check of the hook admits exactly the administrator
RoleAllowed(role) == role = "Administrador"

\* a hook that guards only the requests that change data
ReadsUnguarded(method, path, access, t) ==
    IF method \in {"OPTIONS", "GET"} THEN 0
    ELSE IF path \in public_paths \/ path \in StaticPaths THEN 0
    ELSE IF ~DecodesAs(access, "access", t) THEN 401
    ELSE IF method \in {"PUT", "DELETE"} /\ ~RoleAllowed(access.role) THEN 403
    ELSE 0

\* a hook without the role check
RoleUnchecked(method, path, access, t) ==
    IF method = "OPTIONS" THEN 0
    ELSE IF path \in public_paths \/ path \in StaticPaths THEN 0
    ELSE IF ~DecodesAs(access, "access", t) THEN 401
    ELSE 0

\* a hook that accepts a token only while the cookie that carried it is set
RevokedAtLogout(method, path, access, t) ==
    IF method = "OPTIONS" THEN 0
    ELSE IF path \in public_paths \/ path \in StaticPaths THEN 0
    ELSE IF ~DecodesAs(access, "access", t) \/ access # jar.access THEN 401
    ELSE IF method \in {"PUT", "DELETE"} /\ ~RoleAllowed(access.role) THEN 403
    ELSE 0

\* enforce_jwt_protection: 0 when the request goes on to the view, else the
\* status of the response the hook returns
enforce_jwt_protection(method, path, access, t) ==
    IF method = "OPTIONS" THEN 0
    ELSE IF path \in public_paths \/ path \in StaticPaths THEN 0
    ELSE IF ~DecodesAs(access, "access", t) THEN 401
    ELSE IF method \in {"PUT", "DELETE"} /\ ~RoleAllowed(access.role) THEN 403
    ELSE 0

----------------------------------------------------------------------------
(* Requests and responses *)

NoBody == [identification |-> 0, password |-> "", role |-> "", email |-> "",
           status |-> FALSE, name |-> ""]

NoEtag == <<>>

\* query is the query-string, if_none_match the If-None-Match header,
\* authorization the token of an Authorization: Bearer header
Request(method, path, access, refresh, id, body) ==
    [method |-> method, path |-> path, access |-> access, refresh |-> refresh,
     id |-> id, body |-> body, query |-> "", if_none_match |-> NoEtag,
     authorization |-> NoToken]

\* Config.JWT_TOKEN_LOCATION
JWT_TOKEN_LOCATION == {"cookies"}

\* flask_jwt_extended looks for the token in the configured locations only
TokenOf(r, locations) ==
    IF "headers" \in locations /\ r.authorization # NoToken THEN r.authorization
    ELSE IF "cookies" \in locations THEN r.access
    ELSE NoToken

NoReq == Request("", "", NoToken, NoToken, 0, NoBody)

\* status, the cookies the response sets (NoToken: none set), whether it
\* unsets the JWT cookies, and the data it carries
Response(status, setAccess, setRefresh, unset, data) ==
    [status |-> status, setAccess |-> setAccess, setRefresh |-> setRefresh,
     unset |-> unset, data |-> data, etag |-> NoEtag]

Plain(status) == Response(status, NoToken, NoToken, FALSE, NoRow)

\* the browser applies Set-Cookie
ApplyCookies(j, r) ==
    IF r.unset THEN [j EXCEPT !.access = NoToken, !.refresh = NoToken]
    ELSE [access |-> IF r.setAccess = NoToken THEN j.access ELSE r.setAccess,
          refresh |-> IF r.setRefresh = NoToken THEN j.refresh ELSE r.setRefresh,
          etag |-> IF r.etag = NoEtag THEN j.etag ELSE r.etag,
          kept |-> IF r.setAccess = NoToken THEN j.kept ELSE r.setAccess]

EmptyJar == [access |-> NoToken, refresh |-> NoToken, etag |-> NoEtag,
             kept |-> NoToken]

\* the access cookie of a client that sends what its jar holds
Cookies == {NoToken, jar.access}

\* the cookies any client can send: none, junk, or either token of the jar
AnyCookies == {NoToken, Garbage, jar.access, jar.refresh}

\* the jar after a login with the credentials of row i at time t
JarAfterLogin(us, i, t) ==
    [access |-> CreateAccessToken(PyStr(i), us[i].role, t),
     refresh |-> CreateRefreshToken(PyStr(i), us[i].role, t),
     etag |-> NoEtag,
     kept |-> CreateAccessToken(PyStr(i), us[i].role, t)]

\* A JWT error raised inside a flask-restx resource is answered 401 by the
\* JWTManager handlers when exceptions propagate to the app, and 500 by
\* Api.handle_error otherwise
JwtErrorStatuses == {401, 500}

\* the statuses to choose from for a request with this access cookie: a
\* valid token raises no JWT error
JwtErrors(access, t) ==
    IF DecodesAs(access, "access", t) THEN {401} ELSE JwtErrorStatuses

----------------------------------------------------------------------------
(* CacheManager *)

HexDigits == <<"0", "1", "2", "3", "4", "5", "6", "7",
               "8", "9", "a", "b", "c", "d", "e", "f">>

\* the names given to cache_query_result, and the dictionary-key prefixes
\* f"query_{query_name}" made of them
QueryNames == <<"species_detail", "dashboard_stats", "system_alerts">>

QueryIndex(name) == CHOOSE i \in 1..Len(QueryNames) : QueryNames[i] = name

\* memory addresses a Resource instance can get: flask-restx builds a new
\* instance per request and str(self) is the default repr with the address
Addrs == 1..MaxAddrs

\* the query-strings of the model's requests
QueryStrings == {""}

\* the query-strings of the requests to the cached endpoints, in the order
\* of their index
AllQueryStrings == <<"", "limit=1">>

QueryStringIndex(q) ==
    (CHOOSE i \in 1..Len(AllQueryStrings) : AllQueryStrings[i] = q) - 1

\* hashlib.md5(...).hexdigest(): a digest over the hexadecimal alphabet,
\* determined by the text hashed, different for the different texts of the model
Md5Hex(n) ==
    LET m == (n * 37 + 11) % 4096
    IN  <<HexDigits[((m \div 256) % 16) + 1], HexDigits[((m \div 16) % 16) + 1],
          HexDigits[(m % 16) + 1]>>

\* CacheManager._generate_key(prefix, *args, **kwargs) as the decorator
\* calls it: args is (self,), kwargs the URL variables and the query-string
_generate_key(name, self, id, query) ==
    Md5Hex(((QueryIndex(name) * (MaxAddrs + 1) + self) * 4 + id) * Len(AllQueryStrings)
           + QueryStringIndex(query))

\* pattern in key, on str
IsSubstring(pattern, key) ==
    \E i \in 0..(Len(key) - Len(pattern)) :
        \A j \in 1..Len(pattern) : key[i + j] = pattern[j]

\* the patterns given to invalidate_cache_on_change, as character sequences
Chars_species_list == <<"s","p","e","c","i","e","s","_","l","i","s","t">>
Chars_species_detail == <<"s","p","e","c","i","e","s","_","d","e","t","a","i","l">>
Chars_breeds_list == <<"b","r","e","e","d","s","_","l","i","s","t">>
Chars_breed_detail == <<"b","r","e","e","d","_","d","e","t","a","i","l">>
Chars_fields_list == <<"f","i","e","l","d","s","_","l","i","s","t">>
Chars_field_detail == <<"f","i","e","l","d","_","d","e","t","a","i","l">>

None == "<None>"

\* an entry that is still live at the instant it expires
LiveAtExpiry(entry, t) == entry.expires_at >= t

\* the entry is live at time t
Unexpired(entry, t) == entry.expires_at > t

\* CacheManager.get finds the key with an entry that is live
CacheHit(c, key, t) == key \in DOMAIN c /\ Unexpired(c[key], t)

\* CacheManager.get: the value returned
CacheGetValue(c, key, t) == IF CacheHit(c, key, t) THEN c[key].data ELSE None

\* CacheManager.get: the dictionary afterwards (an expired entry is deleted)
CacheGetDict(c, key, t) ==
    IF key \in DOMAIN c /\ ~Unexpired(c[key], t)
    THEN [k \in DOMAIN c \ {key} |-> c[k]]
    ELSE c

\* CacheManager.set
CacheSet(c, key, value, ttl, t) ==
    [k \in DOMAIN c \cup {key} |->
        IF k = key THEN [data |-> value, expires_at |-> t + ttl] ELSE c[k]]

\* CacheManager.delete
CacheDelete(c, key) == [k \in DOMAIN c \ {key} |-> c[k]]

\* CacheManager.clear_pattern
clear_pattern(c, pattern) ==
    [k \in {x \in DOMAIN c : ~IsSubstring(pattern, x)} |-> c[k]]

\* CacheManager.cleanup_expired
cleanup_expired(c, t) ==
    [k \in {x \in DOMAIN c : ~(c[x].expires_at <= t)} |-> c[k]]

RECURSIVE ClearPatterns(_, _)
\* the loop of invalidate_cache_on_change over its patterns
ClearPatterns(c, patterns) ==
    IF patterns = <<>> THEN c
    ELSE ClearPatterns(clear_pattern(c, Head(patterns)), Tail(patterns))

EmptyCache == [k \in {} |-> None]

\* ttl_seconds of the cached endpoints, in ticks
CacheTicks == 1


----------------------------------------------------------------------------
(* The cache called directly *)

Keys == {<<"a", "1">>, <<"b", "1">>}

Patterns == {<<"a">>, <<"1">>, <<"z">>}

Values == {"v1", "v2"}

Ttls == 0..MaxTtl

Threads == 1..MaxThreads

Exceptions == {"KeyError", "RuntimeError"}

NoSet == [data |-> None, expires_at |-> 0]

NoGet == [key |-> <<>>, value |-> None, expires_at |-> 0]

\* a thread outside the cache; ret is what its last call returned or raised
Idle(ret) == [pc |-> "idle", key |-> <<>>, entry |-> NoSet, used |-> 0,
              keys |-> {}, ret |-> ret]

SomeIdle == \E th \in Threads : threads[th].pc = "idle"

\* no thread in the cache, nothing set or read yet
Quiet ==
    /\ threads = [th \in Threads |-> Idle(None)]
    /\ lastSet = [k \in Keys |-> NoSet]
    /\ everSet = [k \in Keys |-> {}]
    /\ got = NoGet

\* cache.get(k), run without interruption
Get ==
    \E k \in Keys :
        /\ SomeIdle
        /\ got' = [key |-> k, value |-> CacheGetValue(cache, k, now),
                   expires_at |-> IF CacheHit(cache, k, now)
                                  THEN cache[k].expires_at ELSE 0]
        /\ cache' = CacheGetDict(cache, k, now)
        /\ UNCHANGED <<now, threads, lastSet, everSet>>
        /\ UNCHANGED <<served, farm>>

\* cache.set(k, v, ttl): the store into the dictionary is one step
Set ==
    \E k \in Keys, v \in Values, ttl \in Ttls :
        /\ SomeIdle
        /\ cache' = CacheSet(cache, k, v, ttl, now)
        /\ lastSet' = [lastSet EXCEPT ![k] = [data |-> v, expires_at |-> now + ttl]]
        /\ everSet' = [everSet EXCEPT ![k] = @ \cup {v}]
        /\ got' = NoGet
        /\ UNCHANGED <<now, threads>>
        /\ UNCHANGED <<served, farm>>

\* cache.set(k, v) with the default ttl_seconds by one of several threads
Store ==
    \E k \in Keys, v \in Values :
        /\ SomeIdle
        /\ cache' = CacheSet(cache, k, v, DefaultTtl, now)
        /\ everSet' = [everSet EXCEPT ![k] = @ \cup {v}]
        /\ got' = NoGet
        /\ UNCHANGED <<now, threads, lastSet>>
        /\ UNCHANGED <<served, farm>>

\* cache.delete(k), run without interruption
Delete ==
    \E k \in Keys :
        /\ SomeIdle
        /\ k \in DOMAIN cache
        /\ cache' = CacheDelete(cache, k)
        /\ lastSet' = [lastSet EXCEPT ![k] = NoSet]
        /\ got' = NoGet
        /\ UNCHANGED <<now, threads, everSet>>
        /\ UNCHANGED <<served, farm>>

\* cache.clear_pattern(p), run without interruption
ClearPattern ==
    \E p \in Patterns :
        /\ SomeIdle
        /\ cache' = clear_pattern(cache, p)
        /\ lastSet' = [k \in Keys |-> IF IsSubstring(p, k) THEN NoSet ELSE lastSet[k]]
        /\ got' = NoGet
        /\ UNCHANGED <<now, threads, everSet>>
        /\ UNCHANGED <<served, farm>>

\* cache.cleanup_expired(), run without interruption
CleanupExpired ==
    /\ SomeIdle
    /\ cache' = cleanup_expired(cache, now)
    /\ got' = NoGet
    /\ UNCHANGED <<now, threads, lastSet, everSet>>
    /\ UNCHANGED <<served, farm>>

----------------------------------------------------------------------------
(* The cache methods of concurrent request threads, one step per access to
   the shared dictionary; a thread can be preempted between any two *)

At(th, pc) == threads[th].pc = pc

Goto(th, pc) == threads' = [threads EXCEPT ![th].pc = pc]

Return(th, v) == threads' = [threads EXCEPT ![th] = Idle(v)]

Raise(th, e) == threads' = [threads EXCEPT ![th] = Idle(e)]

\* a thread enters get, cleanup_expired or clear_pattern; the two scans
\* create their dictionary iterator, which remembers the size
Call(th) ==
    /\ At(th, "idle")
    /\ \/ \E k \in Keys :
            threads' = [threads EXCEPT ![th] = [Idle(None) EXCEPT
                            !.pc = "get_contains", !.key = k]]
       \/ threads' = [threads EXCEPT ![th] = [Idle(None) EXCEPT
                            !.pc = "cleanup_scan",
                            !.used = Cardinality(DOMAIN cache)]]
       \/ \E p \in Patterns :
            threads' = [threads EXCEPT ![th] = [Idle(None) EXCEPT
                            !.pc = "clear_scan", !.key = p,
                            !.used = Cardinality(DOMAIN cache)]]
    /\ got' = NoGet
    /\ UNCHANGED <<now, cache, lastSet, everSet>>
    /\ UNCHANGED <<served, farm>>

\* get: if key in self._cache
GetContains(th) ==
    /\ At(th, "get_contains")
    /\ IF threads[th].key \in DOMAIN cache
       THEN Goto(th, "get_load") /\ got' = NoGet
       ELSE /\ Return(th, None)
            /\ got' = [NoGet EXCEPT !.key = threads[th].key]
    /\ UNCHANGED <<now, cache, lastSet, everSet>>
    /\ UNCHANGED <<served, farm>>

\* get: cache_entry = self._cache[key]
GetLoad(th) ==
    /\ At(th, "get_load")
    /\ IF threads[th].key \in DOMAIN cache
       THEN threads' = [threads EXCEPT ![th].pc = "get_check",
                                       ![th].entry = cache[threads[th].key]]
       ELSE Raise(th, "KeyError")
    /\ got' = NoGet
    /\ UNCHANGED <<now, cache, lastSet, everSet>>
    /\ UNCHANGED <<served, farm>>

\* get: if cache_entry['expires_at'] > datetime.utcnow(): return the data
GetCheck(th) ==
    /\ At(th, "get_check")
    /\ IF Unexpired(threads[th].entry, now)
       THEN /\ Return(th, threads[th].entry.data)
            /\ got' = [key |-> threads[th].key, value |-> threads[th].entry.data,
                       expires_at |-> threads[th].entry.expires_at]
       ELSE /\ threads' = [threads EXCEPT ![th].pc = "get_del",
                                            ![th].entry = NoSet]
            /\ got' = NoGet
    /\ UNCHANGED <<now, cache, lastSet, everSet>>
    /\ UNCHANGED <<served, farm>>

\* get: del self._cache[key], then return None
GetDel(th) ==
    /\ At(th, "get_del")
    /\ IF threads[th].key \in DOMAIN cache
       THEN /\ cache' = CacheDelete(cache, threads[th].key)
            /\ Return(th, None)
            /\ got' = [NoGet EXCEPT !.key = threads[th].key]
       ELSE /\ Raise(th, "KeyError")
            /\ got' = NoGet
            /\ UNCHANGED cache
    /\ UNCHANGED <<now, lastSet, everSet>>
    /\ UNCHANGED <<served, farm>>

\* cleanup_expired, clear_pattern: the list comprehension over the
\* dictionary; the iterator raises when the size is no longer the one it
\* remembers
Scan(th) ==
    /\ At(th, "cleanup_scan") \/ At(th, "clear_scan")
    /\ IF Cardinality(DOMAIN cache) # threads[th].used
       THEN Raise(th, "RuntimeError")
       ELSE threads' = [threads EXCEPT
                ![th].pc = "del_keys",
                ![th].keys = IF At(th, "cleanup_scan")
                             THEN {k \in DOMAIN cache : cache[k].expires_at <= now}
                             ELSE {k \in DOMAIN cache : IsSubstring(threads[th].key, k)}]
    /\ got' = NoGet
    /\ UNCHANGED <<now, cache, lastSet, everSet>>
    /\ UNCHANGED <<served, farm>>

\* cleanup_expired, clear_pattern: for key in ...: del self._cache[key]
DelKeys(th) ==
    /\ At(th, "del_keys")
    /\ IF threads[th].keys = {}
       THEN Return(th, None) /\ UNCHANGED cache
       ELSE \E k \in threads[th].keys :
                IF k \in DOMAIN cache
                THEN /\ cache' = CacheDelete(cache, k)
                     /\ threads' = [threads EXCEPT ![th].keys = @ \ {k}]
                ELSE Raise(th, "KeyError") /\ UNCHANGED cache
    /\ got' = NoGet
    /\ UNCHANGED <<now, lastSet, everSet>>
    /\ UNCHANGED <<served, farm>>

----------------------------------------------------------------------------
(* Tables *)

UserRow(identification, pw, role, status, email) ==
    [identification |-> identification, password |-> GeneratePasswordHash(pw),
     role |-> role, status |-> status, email |-> email]

\* User.query.filter_by(identification=...).first(): the row's id, 0 for None
FindUser(us, identification) ==
    IF \E i \in 1..Len(us) : us[i].identification = identification
    THEN CHOOSE i \in 1..Len(us) :
            /\ us[i].identification = identification
            /\ \A j \in 1..(i - 1) : us[j].identification # identification
    ELSE 0

\* the species that breeds reference
BreedSpecies == {1}

----------------------------------------------------------------------------
(* Handlers *)

\* RequestMiddleware.before_request: for the request ids whose first byte
\* is 0 modulo 100 the expired cache entries are swept
before_request(c, sweep, t) == IF sweep THEN cleanup_expired(c, t) ELSE c

\* whether the request id calls for the sweep; with no expired entry the
\* sweep is no different from no sweep
Sweeps ==
    IF \E k \in DOMAIN cache : cache[k].expires_at <= now
    THEN BOOLEAN ELSE {FALSE}

\* Login.post
LoginPost(us, body, t) ==
    IF body.identification = 0 \/ body.password = "" THEN Plain(400)
    ELSE LET i == FindUser(us, body.identification) IN
         IF i = 0 THEN Plain(404)
         ELSE IF ~us[i].status THEN Plain(401)
         ELSE IF ~CheckPasswordHash(us[i].password, body.password) THEN Plain(401)
         ELSE Response(200,
                       CreateAccessToken(PyStr(i), us[i].role, t),
                       CreateRefreshToken(PyStr(i), us[i].role, t),
                       FALSE, i)

\* RefreshToken.post under jwt_required(refresh=True)
RefreshPost(refresh, t, jwtError) ==
    IF ~DecodesAs(refresh, "refresh", t) THEN Plain(jwtError)
    ELSE LET user_identity == refresh.sub IN
         IF ~HasGet(user_identity) THEN Plain(500)
         ELSE Response(200,
                       CreateAccessToken(user_identity, user_identity.role, t),
                       NoToken, FALSE, NoRow)

\* Logout.post
LogoutPost == Response(200, NoToken, NoToken, TRUE, NoRow)

\* BaseModel.create on User: the unique columns decide
UserCreateConflicts(us, body) ==
    \E i \in 1..Len(us) :
        \/ us[i].identification = body.identification
        \/ us[i].email = body.email

\* a role test that turns away the apprentice only
InstructorAllowed(role) == role # "Aprendiz"

\* the role test of UserList.post on the claims of the token
CreatorAllowed(role) == role = "Administrador"

\* UserList.post: <<response, user table afterwards>>
UserListPost(us, access, body, t) ==
    IF body.role \notin Roles THEN <<Plain(400), us>>
    ELSE LET bootstrap_mode == Len(us) = 0
             claims == IF DecodesAs(access, "access", t) THEN access ELSE NoToken
         IN
         IF claims # NoToken /\ ~CreatorAllowed(claims.role) THEN <<Plain(403), us>>
         ELSE IF body.email \notin Emails \/ body.identification <= 0
              THEN <<Plain(422), us>>
         ELSE IF bootstrap_mode /\ body.role # "Administrador" THEN <<Plain(422), us>>
         ELSE IF UserCreateConflicts(us, body) THEN <<Plain(409), us>>
         ELSE <<Response(201, NoToken, NoToken, FALSE, Len(us) + 1),
                Append(us, UserRow(body.identification, body.password, body.role,
                                   body.status, body.email))>>

\* SecurityValidator.require_admin_role: 0 when the call goes on
require_admin_role(access) ==
    IF access.role # "Administrador" THEN 403 ELSE 0

\* SpeciesDetail.put under jwt_required: <<response, species table afterwards>>
SpeciesPut(sp, access, id, body) ==
    IF sp[id] = NoRow THEN <<Plain(404), sp>>
    ELSE IF \E o \in SpeciesIds : o # id /\ sp[o] = body.name
         THEN <<Plain(500), sp>>
    ELSE LET after == [sp EXCEPT ![id] = body.name] IN
         IF ~HasGet(access.sub) THEN <<Plain(500), after>>
         ELSE <<Response(200, NoToken, NoToken, FALSE, body.name), after>>

\* BaseModel.delete: the row is deleted and the deletion committed
ModelDelete(sp, id) == [sp EXCEPT ![id] = NoRow]

\* SpeciesDetail.delete under jwt_required: <<response, species table afterwards>>
SpeciesDelete(sp, access, id) ==
    IF sp[id] = NoRow THEN <<Plain(404), sp>>
    ELSE IF id \in BreedSpecies THEN <<Plain(409), sp>>
    ELSE LET after == ModelDelete(sp, id) IN
         IF ~HasGet(access.sub) THEN <<Plain(500), after>>
         ELSE <<Plain(200), after>>

\* SpeciesDetail.get under jwt_required
SpeciesGet(sp, id) ==
    IF sp[id] = NoRow THEN Plain(404)
    ELSE Response(200, NoToken, NoToken, FALSE, sp[id])

\* the id AUTO_INCREMENT gives the next row: one past the ids in use, 0
\* when the model has no further id
NextId(sp) ==
    LET used == {i \in SpeciesIds : sp[i] # NoRow}
        top == IF used = {} THEN 0 ELSE CHOOSE i \in used : \A j \in used : j <= i
    IN  IF top + 1 \in SpeciesIds THEN top + 1 ELSE 0

\* SpeciesList.post under jwt_required: <<response, species table afterwards>>
SpeciesListPost(sp, body) ==
    IF \E i \in SpeciesIds : sp[i] = body.name THEN <<Plain(409), sp>>
    ELSE LET id == NextId(sp) IN
         <<Response(201, NoToken, NoToken, FALSE, body.name),
           [sp EXCEPT ![id] = body.name]>>

\* SpeciesList.get under jwt_required: SELECT id, name FROM species
SpeciesListGet(sp) ==
    Response(200, NoToken, NoToken, FALSE,
             [id \in {i \in SpeciesIds : sp[i] # NoRow} |-> sp[id]])

\* ETagCacheManager.__init__: self._table_timestamps = {}
NoTimestamps == [table \in {} |-> 0]

\* ETagCacheManager._get_table_last_modified, by the row count it falls
\* back to
_get_table_last_modified(sp) == Cardinality({i \in SpeciesIds : sp[i] # NoRow})

\* ETagCacheManager._generate_etag: a digest of table, timestamp and data
_generate_etag(data, last_modified) == <<"species", last_modified, data>>

\* a check against the timestamp the client's ETag was issued with, as a
\* manager whose _table_timestamps outlived the request would make it
SinceIssued(table_timestamps, current_timestamp, client_etag) ==
    IF client_etag = NoEtag THEN TRUE
    ELSE current_timestamp > client_etag[2]

\* ETagCacheManager._check_if_modified on the manager's _table_timestamps
_check_if_modified(table_timestamps, current_timestamp, client_etag) ==
    IF client_etag = NoEtag THEN TRUE
    ELSE IF "species" \notin DOMAIN table_timestamps THEN TRUE
    ELSE current_timestamp > table_timestamps["species"]

\* etag_cache around a jwt_required handler; every call builds its own
\* ETagCacheManager
etag_cache(sp, client_etag, access, result, t, jwtError) ==
    LET cache_manager == [_table_timestamps |-> NoTimestamps]
        last_modified == _get_table_last_modified(sp)
    IN  IF ~_check_if_modified(cache_manager._table_timestamps, last_modified,
                               client_etag)
        THEN [Plain(304) EXCEPT !.etag = client_etag]
        ELSE IF ~DecodesAs(access, "access", t) THEN Plain(jwtError)
        ELSE [result EXCEPT !.etag = _generate_etag(result.data, last_modified)]

\* DashboardStats.get under jwt_required: the aggregates it reads
DashboardData(us) == <<"dashboard", Len(us)>>

\* cache_query_result around a jwt_required handler: <<response, cache
\* afterwards>>; result is what the handler returns when it is run
cache_query_result(c, name, self, id, query, access, result, t, jwtError) ==
    LET cache_key == _generate_key(name, self, id, query)
        c1 == CacheGetDict(c, cache_key, t)
    IN  \* a handler's result is a tuple, so get answers None exactly on a miss
        IF CacheHit(c, cache_key, t) THEN <<CacheGetValue(c, cache_key, t), c1>>
        ELSE IF ~DecodesAs(access, "access", t) THEN <<Plain(jwtError), c1>>
        ELSE <<result, CacheSet(c1, cache_key, result, CacheTicks, t)>>

\* the views that keep no state: the status each answers
SimpleView(method, path) ==
    IF method = "OPTIONS" THEN 200
    ELSE IF method = "GET" /\ path \in {"/health", "/metrics", "/debug-complete",
                                        PathAnimals}
    THEN 200
    ELSE IF path \in {"/health", "/metrics", "/debug-complete"}
    THEN 405
    ELSE 404

\* the requests to those views
SimpleRequests ==
    ({"GET", "POST", "OPTIONS"}
        \X {"/health", "/metrics", "/debug-complete", "/static/app.js", "/api/v1/nope"})
    \cup {<<"PUT", "/api/v1/nope">>, <<"DELETE", "/api/v1/nope">>,
          <<"GET", PathAnimals>>}


----------------------------------------------------------------------------
(* The requests, one action each *)

Answer(r, out) ==
    /\ req' = r
    /\ resp' = out
    /\ jar' = ApplyCookies(jar, out)
    /\ UNCHANGED direct

Login ==
    \E identification \in 0..MaxIdent, pw \in Passwords, sweep \in Sweeps :
        LET r == Request("POST", PathLogin, jar.access, jar.refresh, 0,
                         [NoBody EXCEPT !.identification = identification,
                                        !.password = pw])
            h == enforce_jwt_protection(r.method, r.path, r.access, now)
        IN  /\ Answer(r, IF h # 0 THEN Plain(h) ELSE LoginPost(users, r.body, now))
            /\ cache' = before_request(cache, sweep, now)
            /\ UNCHANGED <<users, species, now, farm>>

Refresh ==
    \E access \in AnyCookies, refresh \in AnyCookies, e \in JwtErrorStatuses,
       sweep \in Sweeps :
        LET r == Request("POST", PathRefresh, access, refresh, 0, NoBody)
            h == enforce_jwt_protection(r.method, r.path, r.access, now)
        IN  /\ Answer(r, IF h # 0 THEN Plain(h) ELSE RefreshPost(refresh, now, e))
            /\ cache' = before_request(cache, sweep, now)
            /\ UNCHANGED <<users, species, now, farm>>

Logout ==
    \E access \in AnyCookies, sweep \in Sweeps :
        LET r == Request("POST", PathLogout, access, jar.refresh, 0, NoBody)
            h == enforce_jwt_protection(r.method, r.path, r.access, now)
        IN  /\ Answer(r, IF h # 0 THEN Plain(h) ELSE LogoutPost)
            /\ cache' = before_request(cache, sweep, now)
            /\ UNCHANGED <<users, species, now, farm>>

\* the bodies posted to /users: a new user of each role, and bodies with a
\* taken identification, a taken email, a malformed email, no
\* identification and an unknown role
NewUser(identification, role, email) ==
    [NoBody EXCEPT !.identification = identification, !.password = "clave-dos",
                   !.role = role, !.email = email, !.status = TRUE]

NewUserBodies ==
    {NewUser(MaxIdent, role, "c@finca.co") : role \in Roles \cup {"Otro"}}
    \cup {NewUser(1, "Aprendiz", "c@finca.co"),
          NewUser(MaxIdent, "Aprendiz", "a@finca.co"),
          NewUser(MaxIdent, "Aprendiz", "sin-arroba"),
          NewUser(0, "Aprendiz", "c@finca.co")}

CreateUser ==
    \E access \in Cookies, body \in NewUserBodies, sweep \in Sweeps :
        LET r == Request("POST", PathUsers, access, jar.refresh, 0, body)
            h == enforce_jwt_protection(r.method, r.path, r.access, now)
            out == IF h # 0 THEN <<Plain(h), users>>
                   ELSE UserListPost(users, r.access, r.body, now)
        IN  /\ Len(out[2]) <= MaxUsers
            /\ Answer(r, out[1])
            /\ users' = out[2]
            /\ cache' = before_request(cache, sweep, now)
            /\ UNCHANGED <<species, now, farm>>

PutSpecies ==
    \E access \in Cookies, id \in SpeciesIds, name \in Names, sweep \in Sweeps :
        LET r == Request("PUT", PathSpecies, access, jar.refresh, id,
                         [NoBody EXCEPT !.name = name])
            h == enforce_jwt_protection(r.method, r.path, r.access, now)
            a == IF h # 0 THEN h ELSE require_admin_role(r.access)
            c0 == before_request(cache, sweep, now)
            out == IF a # 0 THEN <<Plain(a), species>>
                   ELSE SpeciesPut(species, r.access, id, r.body)
        IN  /\ Answer(r, out[1])
            /\ species' = out[2]
            /\ cache' = IF a # 0 THEN c0
                        ELSE ClearPatterns(c0, <<Chars_species_list,
                                                 Chars_species_detail,
                                                 Chars_breeds_list>>)
            /\ UNCHANGED <<users, now, farm>>

DeleteSpecies ==
    \E access \in Cookies, id \in SpeciesIds, sweep \in Sweeps :
        LET r == Request("DELETE", PathSpecies, access, jar.refresh, id, NoBody)
            h == enforce_jwt_protection(r.method, r.path, r.access, now)
            a == IF h # 0 THEN h ELSE require_admin_role(r.access)
            c0 == before_request(cache, sweep, now)
            out == IF a # 0 THEN <<Plain(a), species>>
                   ELSE SpeciesDelete(species, r.access, id)
        IN  /\ Answer(r, out[1])
            /\ species' = out[2]
            /\ cache' = IF a # 0 THEN c0
                        ELSE ClearPatterns(c0, <<Chars_species_list,
                                                 Chars_species_detail>>)
            /\ UNCHANGED <<users, now, farm>>

GetSpecies ==
    \E access \in Cookies, id \in SpeciesIds, q \in QueryStrings, self \in Addrs,
       sweep \in Sweeps :
      \E e \in JwtErrors(access, now) :
        LET r == [Request("GET", PathSpecies, access, jar.refresh, id, NoBody)
                    EXCEPT !.query = q]
            h == enforce_jwt_protection(r.method, r.path, r.access, now)
            c0 == before_request(cache, sweep, now)
            out == IF h # 0 THEN <<Plain(h), c0>>
                   ELSE cache_query_result(c0, "species_detail", self, id, q,
                            r.access, SpeciesGet(species, id), now, e)
        IN  /\ Answer(r, out[1])
            /\ cache' = out[2]
            /\ UNCHANGED <<users, species, now, farm>>

\* a thread serves GET /species/<id> for the logged-in client up to the
\* return of the handler: the hook and jwt_required pass, cache.get misses,
\* the handler reads the row; the thread can be preempted before cache.set
ReadBegin(th) ==
    \E id \in SpeciesIds, self \in Addrs, sweep \in Sweeps :
        LET r == Request("GET", PathSpecies, jar.access, jar.refresh, id, NoBody)
            h == enforce_jwt_protection(r.method, r.path, r.access, now)
            c0 == before_request(cache, sweep, now)
            cache_key == _generate_key("species_detail", self, id, "")
        IN  /\ At(th, "idle")
            /\ h = 0
            /\ ~CacheHit(c0, cache_key, now)
            /\ threads' = [threads EXCEPT ![th] = [Idle(None) EXCEPT
                            !.pc = "handler_done", !.key = cache_key,
                            !.entry = [data |-> species[id], expires_at |-> 0],
                            !.used = id]]
            /\ cache' = CacheGetDict(c0, cache_key, now)
            /\ UNCHANGED <<served, now, farm, lastSet, everSet, got>>

\* the thread goes on: cache.set of the result the handler built from the
\* row it read, and the response
ReadEnd(th) ==
    LET id == threads[th].used
        result == SpeciesGet([i \in SpeciesIds |-> threads[th].entry.data], id)
    IN  /\ At(th, "handler_done")
        /\ cache' = CacheSet(cache, threads[th].key, result, CacheTicks, now)
        /\ req' = Request("GET", PathSpecies, jar.access, jar.refresh, id, NoBody)
        /\ resp' = result
        /\ jar' = ApplyCookies(jar, result)
        /\ threads' = [threads EXCEPT ![th] = Idle(None)]
        /\ UNCHANGED <<users, species, now, farm, lastSet, everSet, got>>

\* the names posted to /species: a new one and a stored one
CreateSpecies ==
    \E access \in Cookies, name \in Names \cup {"Bovino"}, sweep \in Sweeps :
        LET r == Request("POST", PathSpeciesList, access, jar.refresh, 0,
                         [NoBody EXCEPT !.name = name])
            h == enforce_jwt_protection(r.method, r.path, r.access, now)
            out == IF h # 0 THEN <<Plain(h), species>>
                   ELSE SpeciesListPost(species, r.body)
        IN  /\ NextId(species) # 0
            /\ Answer(r, out[1])
            /\ species' = out[2]
            /\ cache' = before_request(cache, sweep, now)
            /\ UNCHANGED <<users, now, farm>>

GetSpeciesList ==
    \E access \in Cookies, inm \in {NoEtag, jar.etag}, sweep \in Sweeps :
      \E e \in JwtErrors(access, now) :
        LET r == [Request("GET", PathSpeciesList, access, jar.refresh, 0, NoBody)
                    EXCEPT !.if_none_match = inm]
            h == enforce_jwt_protection(r.method, r.path, r.access, now)
        IN  /\ Answer(r, IF h # 0 THEN Plain(h)
                         ELSE etag_cache(species, inm, r.access,
                                         SpeciesListGet(species), now, e))
            /\ cache' = before_request(cache, sweep, now)
            /\ UNCHANGED <<users, species, now, farm>>

GetDashboard ==
    \E access \in Cookies, self \in Addrs, sweep \in Sweeps :
      \E e \in JwtErrors(access, now) :
        LET r == Request("GET", PathDashboard, access, jar.refresh, 0, NoBody)
            h == enforce_jwt_protection(r.method, r.path, r.access, now)
            c0 == before_request(cache, sweep, now)
            out == IF h # 0 THEN <<Plain(h), c0>>
                   ELSE cache_query_result(c0, "dashboard_stats", self, 0, "",
                            r.access,
                            Response(200, NoToken, NoToken, FALSE, DashboardData(users)),
                            now, e)
        IN  /\ Answer(r, out[1])
            /\ cache' = out[2]
            /\ UNCHANGED <<users, species, now, farm>>

SimpleRequest ==
    \E mp \in SimpleRequests, access \in AnyCookies, sweep \in Sweeps :
        LET r == Request(mp[1], mp[2], access, jar.refresh, 0, NoBody)
            h == enforce_jwt_protection(r.method, r.path, r.access, now)
        IN  /\ Answer(r, Plain(IF h # 0 THEN h ELSE SimpleView(r.method, r.path)))
            /\ cache' = before_request(cache, sweep, now)
            /\ UNCHANGED <<users, species, now, farm>>

\* a read of a protected path by a client that sends, as the cookie, the
\* access token it kept from the login body, whatever happened to its cookies
ReplayKept ==
    \E sweep \in Sweeps :
        LET r == Request("GET", PathAnimals, jar.kept, jar.refresh, 0, NoBody)
            h == enforce_jwt_protection(r.method, r.path,
                                        TokenOf(r, JWT_TOKEN_LOCATION), now)
        IN  /\ Answer(r, Plain(IF h # 0 THEN h ELSE SimpleView(r.method, r.path)))
            /\ cache' = before_request(cache, sweep, now)
            /\ UNCHANGED <<users, species, now, farm>>

\* the same read by a header-based client: no cookie, the kept token in
\* Authorization: Bearer
BearerRequest ==
    \E sweep \in Sweeps :
        LET r == [Request("GET", PathAnimals, NoToken, NoToken, 0, NoBody)
                    EXCEPT !.authorization = jar.kept]
            h == enforce_jwt_protection(r.method, r.path,
                                        TokenOf(r, JWT_TOKEN_LOCATION), now)
        IN  /\ Answer(r, Plain(IF h # 0 THEN h ELSE SimpleView(r.method, r.path)))
            /\ cache' = before_request(cache, sweep, now)
            /\ UNCHANGED <<users, species, now, farm>>

\* time passes; the last exchange is then no longer the current one
Tick ==
    /\ now < MaxTime
    /\ now' = now + 1
    /\ req' = NoReq
    /\ resp' = Plain(0)
    /\ got' = NoGet
    /\ UNCHANGED <<users, species, jar, cache, threads, lastSet, everSet, farm>>

----------------------------------------------------------------------------
(* The herd: tables, unit of work and the animal and breed handlers *)

PathAnimal == "/api/v1/animals/<animal_id>"
PathBreed == "/api/v1/breeds-species/breeds/<breed_id>"
PathVaccinations == "/api/v1/medical/vaccinations"
PathTreatments == "/api/v1/medical/treatments"
PathAnimalFields == "/api/v1/relations/animal-fields"
PathField == "/api/v1/management/fields/<field_id>"

\* a key that the JSON body does not carry, a column that is NULL
Absent == 0

\* dates are days; today is the day of the clock.  Every day up to the one
\* after the last day of the clock can be named in a request
Dates == 0..(MaxTime + 1)

Sexes == {"Hembra", "Macho"}

Records == {"A-001", "A-002", "A-003"}

BreedIds == {1, 2, 3}

AnimalRow(sex, birth_date, weight, record, breeds_id, idFather, idMother) ==
    [sex |-> sex, birth_date |-> birth_date, weight |-> weight, record |-> record,
     breeds_id |-> breeds_id, idFather |-> idFather, idMother |-> idMother,
     status |-> "Vivo"]

\* Model.query.get(id) finds a row
Found(table, id) == id \in 1..Len(table)

\* db.session.rollback(): the rows added and not committed are dropped
rollback(pending) == <<>>

\* the unique index on animals.record rejects the INSERT
RecordTaken(an, record) == \E i \in 1..Len(an) : an[i].record = record

\* a parent test that looks at no sex
AnySex(an, id, sex) == TRUE

\* father.sex != Sex.Macho, mother.sex != Sex.Hembra
ParentSex(an, id, sex) == an[id].sex = sex

\* the checks of AnimalList.post in their order: the status the handler
\* aborts with, 0 when it goes on to the INSERT
AnimalChecks(an, br, body, t) ==
    IF br[body.breeds_id] = NoRow THEN 404
    ELSE IF body.idFather # Absent /\ ~Found(an, body.idFather) THEN 404
    ELSE IF body.idFather # Absent /\ ~ParentSex(an, body.idFather, "Macho") THEN 400
    ELSE IF body.idMother # Absent /\ ~Found(an, body.idMother) THEN 404
    ELSE IF body.idMother # Absent /\ ~ParentSex(an, body.idMother, "Hembra") THEN 400
    ELSE IF body.birth_date > t THEN 400
    ELSE IF body.weight <= 0 THEN 400
    ELSE 0

\* AnimalList.post under expect(validate=True) and jwt_required:
\* <<response, animals table afterwards, session afterwards>>.  An abort
\* inside the try block is an HTTPException, which the handler's own
\* `except Exception` catches, rolls back and turns into abort(500)
AnimalListPost(an, br, access, body, t) ==
    IF body.sex \notin Sexes THEN <<Plain(400), an, <<>>>>
    ELSE LET aborted == IF HasGet(access.sub) /\ access.role # "Administrador"
                        THEN 403 ELSE AnimalChecks(an, br, body, t)
             new_animal == AnimalRow(body.sex, body.birth_date, body.weight,
                                     body.record, body.breeds_id,
                                     body.idFather, body.idMother)
         IN
         IF aborted # 0 THEN <<Plain(500), an, rollback(<<>>)>>
         ELSE IF RecordTaken(an, new_animal.record)
              THEN <<Plain(409), an, rollback(<<new_animal>>)>>
         ELSE <<Response(201, NoToken, NoToken, FALSE, Len(an) + 1),
                Append(an, new_animal), <<>>>>

\* AnimalDetail.get under jwt_required: the abort(404) is caught like the
\* aborts of AnimalList.post
AnimalGet(an, id) ==
    LET aborted == IF ~Found(an, id) THEN 404 ELSE 0 IN
    IF aborted # 0 THEN Plain(500)
    ELSE Response(200, NoToken, NoToken, FALSE, an[id].record)

\* the keys of the body AnimalDetail.put looks at, in the order it does
PutOrder == <<"sex", "birth_date", "weight", "breeds_id", "idFather", "idMother">>

\* a body put to /animals/<animal_id>: the keys it carries and their values
PutBody(keys, sex, birth_date, weight, breeds_id, idFather, idMother) ==
    [keys |-> keys, sex |-> sex, birth_date |-> birth_date, weight |-> weight,
     breeds_id |-> breeds_id, idFather |-> idFather, idMother |-> idMother]

\* one `if key in data` block of AnimalDetail.put on the animal loaded in
\* the session: st is the status of the abort so far (0: none) and the
\* object as assigned so far.  Animals.query.get of a parent answers from
\* the session, so a parent that is the animal itself shows the new sex
PutStep(st, key, an, br, id, body, t) ==
    LET loaded == [an EXCEPT ![id] = st.row] IN
    IF st.aborted # 0 \/ key \notin body.keys THEN st
    ELSE CASE key = "sex" -> [st EXCEPT !.row.sex = body.sex]
           [] key = "birth_date" ->
                IF body.birth_date > t THEN [st EXCEPT !.aborted = 400]
                ELSE [st EXCEPT !.row.birth_date = body.birth_date]
           [] key = "weight" ->
                IF body.weight <= 0 THEN [st EXCEPT !.aborted = 400]
                ELSE [st EXCEPT !.row.weight = body.weight]
           [] key = "breeds_id" ->
                IF br[body.breeds_id] = NoRow THEN [st EXCEPT !.aborted = 404]
                ELSE [st EXCEPT !.row.breeds_id = body.breeds_id]
           [] key = "idFather" ->
                IF body.idFather # Absent /\ ~Found(an, body.idFather)
                THEN [st EXCEPT !.aborted = 404]
                ELSE IF body.idFather # Absent /\ loaded[body.idFather].sex # "Macho"
                THEN [st EXCEPT !.aborted = 400]
                ELSE [st EXCEPT !.row.idFather = body.idFather]
           [] key = "idMother" ->
                IF body.idMother # Absent /\ ~Found(an, body.idMother)
                THEN [st EXCEPT !.aborted = 404]
                ELSE IF body.idMother # Absent /\ loaded[body.idMother].sex # "Hembra"
                THEN [st EXCEPT !.aborted = 400]
                ELSE [st EXCEPT !.row.idMother = body.idMother]

\* the first n blocks, in order
RECURSIVE Updated(_, _, _, _, _, _)
Updated(n, an, br, id, body, t) ==
    IF n = 0 THEN [aborted |-> 0, row |-> an[id]]
    ELSE PutStep(Updated(n - 1, an, br, id, body, t), PutOrder[n], an, br, id, body, t)

\* a handler that never fails on the identity and stores each field as
\* it assigns it
AnimalPutKeeps(an, br, access, id, body, t) ==
    IF ~Found(an, id) THEN <<Plain(500), an>>
    ELSE LET st == Updated(Len(PutOrder), an, br, id, body, t) IN
         <<Plain(IF st.aborted # 0 THEN 500 ELSE 200), [an EXCEPT ![id] = st.row]>>

\* AnimalDetail.put under jwt_required: <<response, animals table afterwards>>.
\* current_user.get('role') raises AttributeError on the str identity; any
\* exception and any abort ends in db.session.rollback() and abort(500),
\* which leaves the table as it was
AnimalPut(an, br, access, id, body, t) ==
    IF ~HasGet(access.sub) THEN <<Plain(500), an>>
    ELSE IF access.role # "Administrador" \/ ~Found(an, id) THEN <<Plain(500), an>>
    ELSE LET st == Updated(Len(PutOrder), an, br, id, body, t) IN
         IF st.aborted # 0 THEN <<Plain(500), an>>
         ELSE <<Plain(200), [an EXCEPT ![id] = st.row]>>

\* BreedDetail.delete under require_admin_role and jwt_required:
\* <<response, breeds table afterwards>>
BreedDelete(br, an, access, id) ==
    IF br[id] = NoRow THEN <<Plain(404), br>>
    ELSE IF \E i \in 1..Len(an) : an[i].breeds_id = id THEN <<Plain(409), br>>
    ELSE LET after == ModelDelete(br, id) IN
         IF ~HasGet(access.sub) THEN <<Plain(500), after>>
         ELSE <<Plain(200), after>>

\* data.get(key, default) on the JSON body
DataGet(body, key, default) == IF key \in DOMAIN body THEN body[key] ELSE default

\* a validate_fields that lets any key beyond the required ones through
OptionalAllowed(keys, required_fields, optional_fields) ==
    ~(required_fields \subseteq keys)

\* RequestValidator.validate_fields: TRUE when it answers 422, that is when
\* a required key is missing or a key is outside required + optional
validate_fields(keys, required_fields, optional_fields) ==
    LET allowed_fields == required_fields \cup optional_fields IN
    \/ ~(required_fields \subseteq keys)
    \/ allowed_fields # {} /\ keys \ allowed_fields # {}

\* BaseModel.create: validates, then persists and commits:
\* <<the exception raised or "", table afterwards>>
ModelCreate(table, row, invalid, references_found) ==
    IF invalid THEN <<"ValidationError", table>>
    ELSE IF ~references_found THEN <<"IntegrityError", table>>
    ELSE <<"", Append(table, row)>>

\* a ValidationError raised by create is answered 422 by `except ValueError`
\* when the class derives from ValueError, else 500 by `except Exception`
ValidationStatuses == {422, 500}

\* the vaccines table
Vaccines == {1}

VaccinationRow(animal_id, vaccine_id, application_date, instructor_id) ==
    [animal_id |-> animal_id, vaccine_id |-> vaccine_id,
     application_date |-> application_date, instructor_id |-> instructor_id]

\* Vaccinations._validate_instance: TRUE when it raises ValidationError
Vaccinations_validate_instance(row, t) == row.application_date > t

\* VaccinationsList.post under validate_fields and jwt_required:
\* <<response, vaccinations table afterwards>>
VaccinationsListPost(vx, an, us, body, t, e) ==
    IF validate_fields(DOMAIN body, {"application_date", "animal_id",
                                     "vaccine_id", "instructor_id"}, {})
    THEN <<Plain(422), vx>>
    ELSE IF ~Found(an, body.animal_id) THEN <<Plain(404), vx>>
    ELSE IF body.vaccine_id \notin Vaccines THEN <<Plain(404), vx>>
    ELSE IF ~Found(us, body.instructor_id) THEN <<Plain(404), vx>>
    ELSE IF body.application_date > t THEN <<Plain(422), vx>>
    ELSE LET row == VaccinationRow(body.animal_id, body.vaccine_id,
                                   body.application_date, body.instructor_id)
             out == ModelCreate(vx, row, Vaccinations_validate_instance(row, t), TRUE)
         IN
         IF out[1] = "ValidationError" THEN <<Plain(e), vx>>
         ELSE IF out[1] = "IntegrityError" THEN <<Plain(409), vx>>
         ELSE <<Response(201, NoToken, NoToken, FALSE, Len(out[2])), out[2]>>

\* end_date IS NULL, removal_date IS NULL
NoDate == -1

TreatmentRow(animal_id, start_date, end_date) ==
    [animal_id |-> animal_id, start_date |-> start_date, end_date |-> end_date]

\* Treatments._validate_instance on the dates: TRUE when it raises
\* ValidationError
Treatments_validate_instance(row, t) ==
    \/ row.start_date > t
    \/ row.end_date # NoDate /\ (row.end_date < row.start_date \/ row.end_date > t)

\* TreatmentsList.post under validate_fields and jwt_required:
\* <<response, treatments table afterwards>>.  The text columns
\* (description, frequency, observations, dosis) are in every body
TreatmentsListPost(tr, an, body, t, e) ==
    IF validate_fields(DOMAIN body, {"start_date", "animal_id"}, {})
    THEN <<Plain(422), tr>>
    ELSE LET row == TreatmentRow(body.animal_id, body.start_date,
                                 DataGet(body, "end_date", NoDate))
             out == ModelCreate(tr, row, Treatments_validate_instance(row, t),
                                Found(an, row.animal_id))
         IN
         IF out[1] = "ValidationError" THEN <<Plain(e), tr>>
         ELSE IF out[1] = "IntegrityError" THEN <<Plain(409), tr>>
         ELSE <<Response(201, NoToken, NoToken, FALSE, Len(out[2])), out[2]>>

\* the stored fields; capacity is a String column
SeedFields == <<[name |-> "Potrero 1", capacity |-> "1"],
                 [name |-> "Potrero 2", capacity |-> "2"]>>

AssignmentRow(animal_id, field_id, assignment_date, removal_date) ==
    [animal_id |-> animal_id, field_id |-> field_id,
     assignment_date |-> assignment_date, removal_date |-> removal_date]

\* AnimalFields.query.filter(animal_id == ..., removal_date.is_(None))
ActiveOfAnimal(af, animal_id) ==
    {i \in 1..Len(af) : af[i].animal_id = animal_id /\ af[i].removal_date = NoDate}

\* AnimalFields.query.filter(field_id == ..., removal_date.is_(None))
ActiveInField(af, field_id) ==
    {i \in 1..Len(af) : af[i].field_id = field_id /\ af[i].removal_date = NoDate}

\* AnimalFieldsList.post: <<response, animal_fields table afterwards>>.
\* expect(animal_field_input_model, validate=True) answers 400 to a body
\* without start_date or duration, and validate_fields answers 422 to a
\* body with a key other than animal_id, field_id and assignment_date.
\* Past the decorators the handler ends in `except Exception` whenever it
\* would go on: Fields has no attribute `field` (AttributeError when the
\* animal is active), capacity is a str (TypeError on count >= capacity)
\* and `reason` is no column of AnimalFields (TypeError in the constructor)
AnimalFieldsListPost(af, an, fl, body, t) ==
    IF ~({"animal_id", "field_id", "start_date", "duration"} \subseteq DOMAIN body)
    THEN <<Plain(400), af>>
    ELSE IF validate_fields(DOMAIN body, {"animal_id", "field_id",
                                          "assignment_date"}, {})
    THEN <<Plain(422), af>>
    ELSE IF ~Found(an, body.animal_id) THEN <<Plain(404), af>>
    ELSE IF ~Found(fl, body.field_id) THEN <<Plain(404), af>>
    ELSE IF body.assignment_date > t THEN <<Plain(422), af>>
    ELSE <<Plain(500), af>>

\* the unique index on fields.name: another row holds the name
NameTaken(fl, id, name) == \E j \in 1..Len(fl) : j # id /\ fl[j].name = name

\* FieldDetail.put under jwt_required: <<response, fields table afterwards>>.
\* The commit raises IntegrityError when the new name is that of another
\* field; the handler has `except Exception` only, which rolls back and
\* answers 500. Past the commit the response reads field.guages, which a
\* Fields row has only when the body set it (the column is gauges)
FieldPut(fl, id, body) ==
    IF ~Found(fl, id) THEN <<Plain(404), fl>>
    ELSE LET field == [fl[id] EXCEPT !.name = DataGet(body, "name", @),
                                     !.capacity = DataGet(body, "capacity", @)]
             after == [fl EXCEPT ![id] = field]
         IN
         IF NameTaken(fl, id, field.name) THEN <<Plain(500), fl>>
         ELSE IF "guages" \notin DOMAIN body THEN <<Plain(500), after>>
         ELSE <<Response(200, NoToken, NoToken, FALSE, id), after>>

----------------------------------------------------------------------------
(* The requests on the herd, one action each *)

\* the parents a body names: none, a stored animal, or the id the new
\* animal is about to get
ParentIds == 0..MaxAnimals

\* the bodies posted to /animals: every choice of sex and parents with a
\* new record, a known breed, a past birth date and a positive weight, and
\* one body each with a taken record, an unknown sex, an unknown breed, a
\* birth date in the future and no weight
AnimalBodies ==
    {AnimalRow(sex, 0, 1, "A-003", 1, f, m) :
        sex \in Sexes, f \in ParentIds, m \in ParentIds}
    \cup {AnimalRow("Hembra", 0, 1, "A-002", 1, Absent, Absent),
          AnimalRow("Otro", 0, 1, "A-003", 1, Absent, Absent),
          AnimalRow("Macho", 0, 1, "A-003", 3, Absent, Absent),
          AnimalRow("Macho", MaxTime + 1, 1, "A-003", 1, Absent, Absent),
          AnimalRow("Macho", 0, 0, "A-003", 1, Absent, Absent)}

CreateAnimal ==
    \E access \in Cookies, body \in AnimalBodies, sweep \in Sweeps :
        LET r == Request("POST", PathAnimals, access, jar.refresh, 0, body)
            h == enforce_jwt_protection(r.method, r.path, r.access, now)
            out == IF h # 0 THEN <<Plain(h), animals, <<>>>>
                   ELSE AnimalListPost(animals, breeds, r.access, r.body, now)
        IN  /\ Len(out[2]) <= MaxAnimals
            /\ Answer(r, out[1])
            /\ animals' = out[2]
            /\ session' = out[3]
            /\ cache' = before_request(cache, sweep, now)
            /\ UNCHANGED <<users, species, now, alerts, breeds, vaccinations, treatments,
                           animal_fields, fields>>

\* the bodies put to /animals/<animal_id>: the keys absent, or a new
\* father, a new mother, a new sex
UpdateBodies ==
    {PutBody(keys, "Hembra", 0, 1, 1, 1, Absent) : keys \in SUBSET {"sex", "idFather"}}

\* bodies the handler's checks reject: an unknown breed, an unknown
\* father, a cow as the father, a future birth date, no weight; each
\* alone and behind valid fields
RejectedBodies ==
    {PutBody(keys \cup more, "Hembra", 0, 2, 3, MaxAnimals, Absent) :
        keys \in {{"breeds_id"}, {"idFather"}}, more \in {{}, {"sex", "weight"}}}
    \cup {PutBody({"idFather"} \cup more, "Hembra", 0, 2, 1, 2, Absent) :
            more \in {{}, {"sex", "weight"}}}
    \cup {PutBody({"birth_date"} \cup more, "Hembra", MaxTime + 1, 2, 1, Absent, Absent) :
            more \in {{}, {"sex"}}}
    \cup {PutBody({"weight"} \cup more, "Hembra", 0, 0, 1, Absent, Absent) :
            more \in {{}, {"sex", "birth_date"}}}

PutAnimal(bodies) ==
    \E access \in Cookies, id \in 1..MaxAnimals, body \in bodies,
       sweep \in Sweeps :
        LET r == Request("PUT", PathAnimal, access, jar.refresh, id, body)
            h == enforce_jwt_protection(r.method, r.path, r.access, now)
            out == IF h # 0 THEN <<Plain(h), animals>>
                   ELSE AnimalPut(animals, breeds, r.access, id, r.body, now)
        IN  /\ Answer(r, out[1])
            /\ animals' = out[2]
            /\ session' = rollback(session)
            /\ cache' = before_request(cache, sweep, now)
            /\ UNCHANGED <<users, species, now, alerts, breeds, vaccinations, treatments,
                           animal_fields, fields>>

UpdateAnimal == PutAnimal(UpdateBodies)

RejectedUpdate == PutAnimal(RejectedBodies)

GetAnimal ==
    \E access \in Cookies, id \in 1..MaxAnimals, sweep \in Sweeps :
        LET r == Request("GET", PathAnimal, access, jar.refresh, id, NoBody)
            h == enforce_jwt_protection(r.method, r.path, r.access, now)
        IN  /\ Answer(r, IF h # 0 THEN Plain(h) ELSE AnimalGet(animals, id))
            /\ cache' = before_request(cache, sweep, now)
            /\ UNCHANGED <<users, species, now, farm>>

DeleteBreed ==
    \E access \in Cookies, id \in BreedIds, sweep \in Sweeps :
        LET r == Request("DELETE", PathBreed, access, jar.refresh, id, NoBody)
            h == enforce_jwt_protection(r.method, r.path, r.access, now)
            a == IF h # 0 THEN h ELSE require_admin_role(r.access)
            c0 == before_request(cache, sweep, now)
            out == IF a # 0 THEN <<Plain(a), breeds>>
                   ELSE BreedDelete(breeds, animals, r.access, id)
        IN  /\ Answer(r, out[1])
            /\ breeds' = out[2]
            /\ cache' = IF a # 0 THEN c0
                        ELSE ClearPatterns(c0, <<Chars_breeds_list,
                                                 Chars_breed_detail>>)
            /\ UNCHANGED <<users, species, now, alerts, animals, vaccinations, treatments,
                           animal_fields, fields, session>>

\* the bodies posted to /medical/vaccinations: each date for a known
\* animal, vaccine and instructor, then an unknown animal, an unknown
\* vaccine, an unknown instructor and a body with the optional apprentice_id
VaccinationBodies ==
    {VaccinationRow(1, 1, d, 1) : d \in {0, MaxTime + 1}}
    \cup {VaccinationRow(MaxAnimals + 1, 1, 0, 1),
          VaccinationRow(1, 2, 0, 1),
          VaccinationRow(1, 1, 0, MaxUsers + 1),
          [animal_id |-> 1, vaccine_id |-> 1, application_date |-> 0,
           instructor_id |-> 1, apprentice_id |-> 2]}

CreateVaccination ==
    \E access \in Cookies, body \in VaccinationBodies, e \in ValidationStatuses,
       sweep \in Sweeps :
        LET r == Request("POST", PathVaccinations, access, jar.refresh, 0, body)
            h == enforce_jwt_protection(r.method, r.path, r.access, now)
            out == IF h # 0 THEN <<Plain(h), vaccinations>>
                   ELSE VaccinationsListPost(vaccinations, animals, users, r.body,
                                             now, e)
        IN  /\ Len(out[2]) <= MaxVaccinations
            /\ Answer(r, out[1])
            /\ vaccinations' = out[2]
            /\ cache' = before_request(cache, sweep, now)
            /\ UNCHANGED <<users, species, now, alerts, animals, breeds, treatments,
                           animal_fields, fields, session>>

\* the bodies posted to /medical/treatments: with and without end_date,
\* for a known and an unknown animal
TreatmentBodies ==
    {[animal_id |-> a, start_date |-> s] : a \in {1, MaxAnimals + 1}, s \in {0, 1}}
    \cup {[animal_id |-> 1, start_date |-> s, end_date |-> e] :
            s \in {0, 1}, e \in {0, 1}}

CreateTreatment ==
    \E access \in Cookies, body \in TreatmentBodies, e \in ValidationStatuses,
       sweep \in Sweeps :
        LET r == Request("POST", PathTreatments, access, jar.refresh, 0, body)
            h == enforce_jwt_protection(r.method, r.path, r.access, now)
            out == IF h # 0 THEN <<Plain(h), treatments>>
                   ELSE TreatmentsListPost(treatments, animals, r.body, now, e)
        IN  /\ Len(out[2]) <= MaxTreatments
            /\ Answer(r, out[1])
            /\ treatments' = out[2]
            /\ session' = rollback(session)
            /\ cache' = before_request(cache, sweep, now)
            /\ UNCHANGED <<users, species, now, alerts, animals, breeds, vaccinations,
                           animal_fields, fields>>

\* the bodies posted to /relations/animal-fields: the keys the handler
\* reads, alone and together with the keys the input model requires
AssignmentBodies ==
    {[animal_id |-> a, field_id |-> f, assignment_date |-> 0] :
        a \in {1, 2}, f \in {1, 2}}
    \cup {[animal_id |-> a, field_id |-> f, assignment_date |-> 0,
           start_date |-> 0, duration |-> "2 meses"] : a \in {1, 2}, f \in {1, 2}}
    \cup {[animal_id |-> a, field_id |-> f, start_date |-> 0, duration |-> "2 meses"] :
            a \in {1, 2}, f \in {1, 2}}

AssignAnimal ==
    \E access \in Cookies, body \in AssignmentBodies, sweep \in Sweeps :
        LET r == Request("POST", PathAnimalFields, access, jar.refresh, 0, body)
            h == enforce_jwt_protection(r.method, r.path, r.access, now)
            out == IF h # 0 THEN <<Plain(h), animal_fields>>
                   ELSE AnimalFieldsListPost(animal_fields, animals, fields, r.body,
                                             now)
        IN  /\ Answer(r, out[1])
            /\ animal_fields' = out[2]
            /\ session' = rollback(session)
            /\ cache' = before_request(cache, sweep, now)
            /\ UNCHANGED <<users, species, now, alerts, animals, breeds, vaccinations,
                           treatments, fields>>

\* the bodies put to /management/fields/<id>: a name, stored or new, or a
\* capacity, with and without the key guages
FieldBodies ==
    {[name |-> n] : n \in {"Potrero 1", "Potrero 3"}}
    \cup {[name |-> n, guages |-> "2"] : n \in {"Potrero 1", "Potrero 3"}}
    \cup {[capacity |-> "2", guages |-> "2"]}

UpdateField ==
    \E access \in Cookies, id \in 1..3, body \in FieldBodies, sweep \in Sweeps :
        LET r == Request("PUT", PathField, access, jar.refresh, id, body)
            h == enforce_jwt_protection(r.method, r.path, r.access, now)
            c0 == before_request(cache, sweep, now)
            out == IF h # 0 THEN <<Plain(h), fields>>
                   ELSE FieldPut(fields, id, r.body)
        IN  /\ Answer(r, out[1])
            /\ fields' = out[2]
            /\ session' = IF h = 0 /\ out[1].status = 500 THEN rollback(session)
                          ELSE session
            /\ cache' = IF h # 0 THEN c0
                        ELSE ClearPatterns(c0, <<Chars_fields_list,
                                                 Chars_field_detail>>)
            /\ UNCHANGED <<users, species, now, alerts, animals, breeds, vaccinations,
                           treatments, animal_fields>>

\* the tables of a running farm: a bull and a cow of breed 1, a breed no
\* animal has, a closed treatment, the bull in the first field
SeedAnimals == <<AnimalRow("Macho", 0, 1, "A-001", 1, Absent, Absent),
                 AnimalRow("Hembra", 0, 1, "A-002", 1, Absent, Absent)>>

SeedBreeds == [id \in BreedIds |-> IF id = 1 THEN "Brahman"
                                   ELSE IF id = 2 THEN "Holstein" ELSE NoRow]

Herd ==
    /\ animals = SeedAnimals
    /\ breeds = SeedBreeds
    /\ vaccinations = <<>>
    /\ treatments = <<TreatmentRow(2, 0, 0)>>
    /\ animal_fields = <<AssignmentRow(1, 1, 0, NoDate)>>
    /\ fields = SeedFields
    /\ session = <<>>
    /\ alerts = <<>>

----------------------------------------------------------------------------
(* The specification of the authentication layer *)

Administrator == UserRow(1, "clave-uno", "Administrador", TRUE, "a@finca.co")

Instructor == UserRow(2, "clave-uno", "Instructor", TRUE, "b@finca.co")

Dormant == UserRow(2, "clave-uno", "Aprendiz", FALSE, "b@finca.co")

\* the user tables a deployment starts from
SeedTables == {<<Administrator>>, <<Administrator, Instructor>>,
               <<Administrator, Dormant>>}

SeedSpecies == [id \in SpeciesIds |-> IF id = 1 THEN "Bovino" ELSE "Porcino"]

Init ==
    /\ users \in SeedTables
    /\ species = SeedSpecies
    /\ now = 0
    /\ jar = EmptyJar
    /\ req = NoReq
    /\ resp = Plain(0)
    /\ cache = EmptyCache
    /\ Quiet
    /\ Herd

Next ==
    \/ Login
    \/ Refresh
    \/ Logout
    \/ PutSpecies
    \/ DeleteSpecies
    \/ SimpleRequest
    \/ Tick

Spec == Init /\ [][Next]_vars


\* the user endpoint on its own, an empty table among the starts
InitUsers ==
    /\ users \in SeedTables \cup {<<>>}
    /\ species = SeedSpecies
    /\ now = 0
    /\ jar = EmptyJar
    /\ req = NoReq
    /\ resp = Plain(0)
    /\ cache = EmptyCache
    /\ Quiet
    /\ Herd

NextUsers ==
    \/ Login
    \/ Logout
    \/ CreateUser
    \/ Tick

SpecUsers == InitUsers /\ [][NextUsers]_vars

\* the cached species endpoint and the write that invalidates it
InitCache ==
    /\ users = <<Administrator>>
    /\ species = SeedSpecies
    /\ now = 0
    /\ jar = JarAfterLogin(users, 1, 0)
    /\ req = NoReq
    /\ resp = Plain(0)
    /\ cache = EmptyCache
    /\ Quiet
    /\ Herd

NextCache ==
    \/ GetSpecies
    \/ PutSpecies
    \/ Tick

SpecCache == InitCache /\ [][NextCache]_vars

\* the species list with its ETag
NextEtag ==
    \/ Login
    \/ GetSpeciesList
    \/ PutSpecies
    \/ DeleteSpecies
    \/ Tick

SpecEtag == Init /\ [][NextEtag]_vars

----------------------------------------------------------------------------
(* Claims on the authentication layer *)

ValidAccess(r) == DecodesAs(r.access, "access", now)

\* the allow-list as the specification words it: health, login, docs, static
ClaimedPublic ==
    {"/health", "/api/v1/health", "/api/v1/auth/login", "/api/v1/login", "/login",
     "/api-documentation", "/docs", "/docs/", "/docs/interactive", "/docs/tester",
     "/api/v1/docs/", "/api/v1/docs", "/swaggerui", "/swagger.json",
     "/api/v1/swagger.json",
     "/swaggerui/droid-sans.css", "/swaggerui/swagger-ui.css",
     "/swaggerui/swagger-ui-bundle.js", "/swaggerui/swagger-ui-standalone-preset.js",
     "/swaggerui/favicon-32x32.png", "/swaggerui/favicon-16x16.png", "/favicon.ico"}
    \cup StaticPaths

C2_NonAdminWriteForbidden ==
    [][(req' # NoReq /\ req'.method \in {"PUT", "DELETE"}
            /\ req'.path \notin public_paths /\ req'.path \notin StaticPaths
            /\ DecodesAs(req'.access, "access", now')
            /\ req'.access.role # "Administrador")
        => (resp'.status = 403 /\ species' = species)]_vars

C2_Witness ==
    /\ req.method = "PUT" /\ req.path = PathSpecies
    /\ ValidAccess(req) /\ req.access.role = "Instructor"
    /\ resp.status = 403

\* C8: a POST to /auth/refresh with a valid, unexpired refresh token returns
\* a newly issued access token for the same user, with or without a valid
\* access token in the request
C8_RefreshReissues ==
    (req.method = "POST" /\ req.path = PathRefresh
        /\ DecodesAs(req.refresh, "refresh", now))
    => (/\ resp.status = 200
        /\ resp.setAccess.typ = "access"
        /\ resp.setAccess.sub = req.refresh.sub)

KnownUser(r) == FindUser(users, r.body.identification) # 0

RightPassword(r) ==
    /\ KnownUser(r)
    /\ users[FindUser(users, r.body.identification)].password
         = GeneratePasswordHash(r.body.password)

ActiveUser(r) ==
    /\ KnownUser(r)
    /\ users[FindUser(users, r.body.identification)].status

SetsBothCookies(r) == r.setAccess.typ = "access" /\ r.setRefresh.typ = "refresh"

\* C9 as stated: login answers 200 with both cookies when identification and
\* password are correct, 401 when the password is wrong, 404 when no user has
\* that identification
C9_Original ==
    (req.method = "POST" /\ req.path = PathLogin)
    => /\ RightPassword(req) => (resp.status = 200 /\ SetsBothCookies(resp))
       /\ (KnownUser(req) /\ ~RightPassword(req)) => resp.status = 401
       /\ ~KnownUser(req) => resp.status = 404

\* C9 amended: with a non-zero identification and a non-empty password,
\* login answers 200 with both cookies when they are correct and the user is
\* active, 401 when the password is wrong or the user is inactive, and 404
\* when no user has that identification; with either one empty it answers 400
C9_LoginStatuses ==
    (req.method = "POST" /\ req.path = PathLogin)
    => IF req.body.identification = 0 \/ req.body.password = ""
       THEN resp.status = 400
       ELSE /\ (RightPassword(req) /\ ActiveUser(req))
                => (resp.status = 200 /\ SetsBothCookies(resp))
            /\ (KnownUser(req) /\ (~RightPassword(req) \/ ~ActiveUser(req)))
                => (resp.status = 401 /\ ~SetsBothCookies(resp))
            /\ ~KnownUser(req) => resp.status = 404

C9_Witness ==
    /\ req.method = "POST" /\ req.path = PathLogin
    /\ resp.status = 200 /\ SetsBothCookies(resp)

C11_BootstrapCreates ==
    [][(/\ Len(users) = 0
        /\ req' # req
        /\ req'.method = "POST" /\ req'.path = PathUsers
        /\ req'.access = NoToken
        /\ req'.body = NewUser(MaxIdent, "Administrador", "c@finca.co"))
       => (resp'.status = 201 /\ Len(users') = 1)]_vars


----------------------------------------------------------------------------
(* The cache on its own *)

InitCacheOps ==
    /\ users = <<Administrator>>
    /\ species = SeedSpecies
    /\ now = 0
    /\ jar = EmptyJar
    /\ req = NoReq
    /\ resp = Plain(0)
    /\ cache = EmptyCache
    /\ Quiet
    /\ Herd

NextCacheOps ==
    \/ Get
    \/ Set
    \/ Delete
    \/ ClearPattern
    \/ CleanupExpired
    \/ Tick

SpecCacheOps == InitCacheOps /\ [][NextCacheOps]_vars

NextRace ==
    \/ Store
    \/ \E th \in Threads :
        \/ Call(th)
        \/ GetContains(th)
        \/ GetLoad(th)
        \/ GetCheck(th)
        \/ GetDel(th)
        \/ Scan(th)
        \/ DelKeys(th)
    \/ Tick

SpecRace == InitCacheOps /\ [][NextRace]_vars

----------------------------------------------------------------------------
(* Claims on the caches *)

\* C3: a list request repeated with the ETag of the previous response in
\* If-None-Match, no row of the table changed in between, is answered 304
\* with an empty body
C3_RepeatNotModified ==
    [][(/\ req.method = "GET" /\ req.path = PathSpeciesList
        /\ resp.status = 200
        /\ req'.method = "GET" /\ req'.path = PathSpeciesList
        /\ req'.access = req.access
        /\ req'.if_none_match = resp.etag
        /\ now' = now /\ species' = species)
       => (resp'.status = 304 /\ resp'.data = NoRow)]_vars

\* the dictionary keys of the entries stored under the name species_detail
SpeciesDetailKeys ==
    {_generate_key("species_detail", self, id, q) :
        self \in Addrs, id \in SpeciesIds, q \in QueryStrings}

\* C4: when a write wrapped with invalidate_cache_on_change has returned,
\* the entries stored under the names of its patterns are gone, and a read
\* of the cached endpoint shows the row as the table has it
C4_WriteInvalidates ==
    /\ (req.method = "PUT" /\ req.path = PathSpecies
            /\ resp.status \notin {401, 403})
        => DOMAIN cache \cap SpeciesDetailKeys = {}
    /\ (req.method = "GET" /\ req.path = PathSpecies
            /\ resp.status \notin {401, 403})
        => resp = SpeciesGet(species, req.id)

\* C5: a request to the cached endpoint repeated with the same path
\* arguments and query-string before the TTL elapses has the key of the
\* first and is answered from its entry: it stores nothing new
C5_SecondFromCache ==
    [][(/\ req.method = "GET" /\ req.path = PathSpecies
        /\ resp.status # 401
        /\ req' = req /\ now' = now)
       => DOMAIN cache' \subseteq DOMAIN cache]_vars

\* what the history says get(k) returns now
Expected(k) ==
    IF now < lastSet[k].expires_at THEN lastSet[k].data ELSE None

\* C6: get(k) returns the value of the most recent set(k, v, ttl) while the
\* clock is before that set's expiry, and None when the key was never set,
\* has expired or was removed; a later set replaces value and expiry
C6_GetLatestLiveSet ==
    got.key \in Keys => got.value = Expected(got.key)

C6_Witness ==
    /\ got.key \in Keys /\ got.value = "v2"
    /\ everSet[got.key] = Values /\ now > 0

\* C7: with threads overlapping in the shared cache no operation raises,
\* and no get returns an expired value or a value never set for its key
C7_BenignOverlap ==
    /\ \A th \in Threads : threads[th].ret \notin Exceptions
    /\ (got.key \in Keys /\ got.value # None)
        => (got.value \in everSet[got.key] /\ got.expires_at > now)

----------------------------------------------------------------------------
(* The herd endpoints on their own, for a client that is logged in *)

InitHerd ==
    /\ users = <<Administrator, Instructor>>
    /\ species = SeedSpecies
    /\ now = 0
    /\ jar \in {JarAfterLogin(users, i, 0) : i \in 1..2}
    /\ req = NoReq
    /\ resp = Plain(0)
    /\ cache = EmptyCache
    /\ Quiet
    /\ Herd

\* animals and breeds
NextHerd ==
    \/ CreateAnimal
    \/ UpdateAnimal
    \/ GetAnimal
    \/ DeleteBreed
    \/ Tick

SpecHerd == InitHerd /\ [][NextHerd]_vars

\* vaccinations, treatments and field assignments
NextRecords ==
    \/ CreateVaccination
    \/ CreateTreatment
    \/ AssignAnimal
    \/ Tick

SpecRecords == InitHerd /\ [][NextRecords]_vars

\* the fields
NextFields ==
    \/ UpdateField
    \/ Tick

SpecFields == InitHerd /\ [][NextFields]_vars

\* the request answered last is one to path with this method, made with a
\* valid access token
Authorized(r, method, path, t) ==
    /\ r.method = method /\ r.path = path
    /\ DecodesAs(r.access, "access", t)

\* C12: every stored animal is neither its own father nor its own mother,
\* and its father and mother differ when both are set
C12_Genealogy ==
    \A i \in 1..Len(animals) :
        /\ animals[i].idFather # i
        /\ animals[i].idMother # i
        /\ (animals[i].idFather # Absent /\ animals[i].idMother # Absent)
            => animals[i].idFather # animals[i].idMother

C12_Witness ==
    /\ Authorized(req, "POST", PathAnimals, now) /\ resp.status = 201
    /\ animals[Len(animals)].idFather # Absent
    /\ animals[Len(animals)].idMother # Absent

\* C16: a DELETE of a stored breed by an administrator is answered 409 and
\* removes nothing when an animal references the breed, and is answered 200
\* and removes the breed when none does
C16_BreedDelete ==
    [][(/\ req' # req
        /\ Authorized(req', "DELETE", PathBreed, now')
        /\ req'.access.role = "Administrador"
        /\ breeds[req'.id] # NoRow)
       => IF \E i \in 1..Len(animals) : animals[i].breeds_id = req'.id
          THEN resp'.status = 409 /\ breeds' = breeds
          ELSE resp'.status = 200 /\ breeds'[req'.id] = NoRow]_vars

\* the request is a POST /animals that passes every check of the handler
\* and carries a record that is stored already
DuplicateRecord(r, t) ==
    /\ Authorized(r, "POST", PathAnimals, t)
    /\ r.body.sex \in Sexes
    /\ AnimalChecks(animals, breeds, r.body, t) = 0
    /\ RecordTaken(animals, r.body.record)

\* the request is a PUT /management/fields/<id> by an administrator that
\* gives a stored field the name of another stored field
DuplicateName(r, t) ==
    /\ Authorized(r, "PUT", PathField, t)
    /\ r.access.role = "Administrador"
    /\ Found(fields, r.id)
    /\ "name" \in DOMAIN r.body
    /\ NameTaken(fields, r.id, r.body.name)

\* C17: a write request that hits a unique index, be it a POST /animals
\* with a stored record or a PUT /management/fields/<id> with the name of
\* another field, is answered 409, leaves the tables as they were and
\* leaves nothing pending in the session
C17_IntegrityRollback ==
    [][(req' # req /\ (DuplicateRecord(req', now') \/ DuplicateName(req', now')))
       => (/\ resp'.status = 409
           /\ animals' = animals /\ fields' = fields
           /\ session' = <<>>)]_vars

\* C18: a GET /animals/<id> for an id that is not stored, and a POST
\* /animals that names a breed that is not stored, are answered 404
C18_UnknownIs404 ==
    /\ (Authorized(req, "GET", PathAnimal, now) /\ ~Found(animals, req.id))
        => resp.status = 404
    /\ (/\ Authorized(req, "POST", PathAnimals, now)
        /\ req.body.sex \in Sexes
        /\ breeds[req.body.breeds_id] = NoRow)
        => resp.status = 404

\* C19: a POST /animals whose birth_date is later than today is answered
\* 400 or 422 and stores no animal
C19_FutureBirthRejected ==
    [][(/\ req' # req
        /\ Authorized(req', "POST", PathAnimals, now')
        /\ req'.body.birth_date > now')
       => (resp'.status \in {400, 422} /\ animals' = animals)]_vars

\* C13: a POST /medical/vaccinations whose animal, vaccine and date are
\* those of a stored vaccination is answered 409, and no two stored
\* vaccinations share animal, vaccine and date
C13_NoDuplicateVaccination ==
    /\ [](\A i, j \in 1..Len(vaccinations) :
            (/\ vaccinations[i].animal_id = vaccinations[j].animal_id
             /\ vaccinations[i].vaccine_id = vaccinations[j].vaccine_id
             /\ vaccinations[i].application_date = vaccinations[j].application_date)
            => i = j)
    /\ [][(/\ req' # req
            /\ Authorized(req', "POST", PathVaccinations, now')
            /\ \E i \in 1..Len(vaccinations) :
                  /\ vaccinations[i].animal_id = req'.body.animal_id
                  /\ vaccinations[i].vaccine_id = req'.body.vaccine_id
                  /\ vaccinations[i].application_date = req'.body.application_date)
           => (resp'.status = 409 /\ vaccinations' = vaccinations)]_vars

\* the request is a POST /relations/animal-fields for a stored animal and a
\* stored field with an assignment date that is not in the future
Assignment(r, t) ==
    /\ Authorized(r, "POST", PathAnimalFields, t)
    /\ {"animal_id", "field_id", "assignment_date"} \subseteq DOMAIN r.body
    /\ Found(animals, r.body.animal_id)
    /\ Found(fields, r.body.field_id)
    /\ r.body.assignment_date <= t

\* C14: no animal has two active assignments, and a request to assign an
\* animal that has an active assignment is answered 409 and stores nothing
C14_OneActiveAssignment ==
    /\ [](\A a \in 1..Len(animals) :
            Cardinality(ActiveOfAnimal(animal_fields, a)) <= 1)
    /\ [][(/\ req' # req
            /\ Assignment(req', now')
            /\ ActiveOfAnimal(animal_fields, req'.body.animal_id) # {})
           => (resp'.status = 409 /\ animal_fields' = animal_fields)]_vars

\* int(field.capacity)
CapacityOf(field) == IF field.capacity = "1" THEN 1 ELSE 2

\* C15: no field has more active assignments than its capacity, and a
\* request to assign an animal with no active assignment to a field that
\* is at its capacity is answered 409 and stores nothing
C15_FieldCapacity ==
    /\ [](\A f \in 1..Len(fields) :
            Cardinality(ActiveInField(animal_fields, f)) <= CapacityOf(fields[f]))
    /\ [][(/\ req' # req
            /\ Assignment(req', now')
            /\ ActiveOfAnimal(animal_fields, req'.body.animal_id) = {}
            /\ Cardinality(ActiveInField(animal_fields, req'.body.field_id))
                  >= CapacityOf(fields[req'.body.field_id]))
           => (resp'.status = 409 /\ animal_fields' = animal_fields)]_vars

----------------------------------------------------------------------------
(* Sessions: login, logout and the token a client keeps *)

NextSession ==
    \/ Login
    \/ Logout
    \/ ReplayKept
    \/ BearerRequest
    \/ Tick

SpecSession == Init /\ [][NextSession]_vars

\* the client has logged out: the server unset its cookies, and it still
\* holds the access token of an earlier login
LoggedOut(j) == j.access = NoToken /\ j.kept.typ = "access"

\* C21: a read of a protected path that presents, after logout, an access
\* token issued before the logout goes past the hook and is answered 200
\* while the token has not expired, and is answered 401 once it has
C21_TokenSurvivesLogout ==
    [][(/\ req' # req
        /\ LoggedOut(jar)
        /\ req'.method = "GET" /\ req'.path = PathAnimals
        /\ req'.access = jar.kept)
       => resp'.status = IF DecodesAs(jar.kept, "access", now') THEN 200 ELSE 401]_vars

C21_Witness ==
    /\ LoggedOut(jar)
    /\ req.method = "GET" /\ req.path = PathAnimals
    /\ req.access = jar.kept
    /\ DecodesAs(jar.kept, "access", now)
    /\ resp.status = 200

\* C22: a read of a protected path that carries no cookie and a valid
\* access token from the login body in Authorization: Bearer is answered
\* 200, as the same read with the token in the cookie is
C22_BearerAccepted ==
    [][(/\ req' # req
        /\ req'.method = "GET" /\ req'.path = PathAnimals
        /\ req'.access = NoToken
        /\ req'.authorization = jar.kept
        /\ DecodesAs(jar.kept, "access", now'))
       => resp'.status = 200]_vars

\* the list request carries an ETag issued for rows other than the ones
\* the table holds now
StaleEtag(r, sp) ==
    /\ r.method = "GET" /\ r.path = PathSpeciesList
    /\ r.if_none_match # NoEtag
    /\ r.if_none_match[3] # SpeciesListGet(sp).data

\* C26: a list request whose If-None-Match was issued before a row of the
\* table was inserted, deleted or edited in place is not answered 304
C26_NoStale304 ==
    [][(req' # req /\ StaleEtag(req', species)) => resp'.status # 304]_vars

C26_Witness ==
    /\ StaleEtag(req, species)
    /\ _get_table_last_modified(species) = req.if_none_match[2]
    /\ resp.status = 200

----------------------------------------------------------------------------
(* Cached reads of a species that does not exist yet *)

InitErrors ==
    /\ users = <<Administrator>>
    /\ species = [SeedSpecies EXCEPT ![2] = NoRow]
    /\ now = 0
    /\ jar = JarAfterLogin(users, 1, 0)
    /\ req = NoReq
    /\ resp = Plain(0)
    /\ cache = EmptyCache
    /\ Quiet
    /\ Herd

NextErrors ==
    \/ GetSpecies
    \/ CreateSpecies
    \/ Tick

SpecErrors == InitErrors /\ [][NextErrors]_vars

\* C28: the cache holds no error result, and a read of a stored species
\* with a valid token is not answered with an error
C28_NoErrorCached ==
    /\ [](\A k \in DOMAIN cache : cache[k].data.status < 400)
    /\ [][(/\ req' # req
            /\ Authorized(req', "GET", PathSpecies, now')
            /\ species[req'.id] # NoRow)
           => resp'.status = 200]_vars

----------------------------------------------------------------------------
(* A cached read overlapping a write of the same species *)

\* one thread reads while the writes are served
NextOverlap ==
    \/ ReadBegin(1)
    \/ ReadEnd(1)
    \/ PutSpecies
    \/ Tick

SpecOverlap == InitCache /\ [][NextOverlap]_vars

\* C27: when a cached read of a species finishes, writes of the species
\* that ran meanwhile having finished, the entry it leaves in the cache
\* holds the species as the table has it
C27_NoStaleAfterOverlap ==
    [][\A th \in Threads :
          (At(th, "handler_done") /\ threads'[th].pc = "idle")
          => cache'[threads[th].key].data = SpeciesGet(species', threads[th].used)]_vars

----------------------------------------------------------------------------
(* The analytics dashboard, a public path of the hook, behind the result cache *)

NextDashboard ==
    \/ GetDashboard
    \/ Logout
    \/ Tick

SpecDashboard == InitCache /\ [][NextDashboard]_vars

\* C25: a request to the dashboard without a valid access token is
\* answered with a JWT error and none of the endpoint's data, whatever the
\* cache holds
C25_NoDataWithoutToken ==
    [][(/\ req' # req
        /\ req'.path = PathDashboard
        /\ ~DecodesAs(req'.access, "access", now'))
       => (resp'.status \in JwtErrorStatuses /\ resp'.data = NoRow)]_vars

----------------------------------------------------------------------------
(* The alerts endpoint: the alerts sorted and cut to the limit *)

MaxAlerts == 2

\* the handler appends 'high' and 'medium' alerts; created_at is the
\* current date or the date of a control
AlertRows == [priority : {"high", "medium"}, created_at : 0..1]

AlertLists == UNION {[1..n -> AlertRows] : n \in 0..MaxAlerts}

\* the query-strings of the requests to the alerts endpoint
AlertQueries == {"", "limit=1"}

\* int(request.args.get('limit', 50))
ArgLimit(q) == IF q = "" THEN 50 ELSE 1

priority_order(p) ==
    CASE p = "high" -> 0 [] p = "medium" -> 1 [] p = "low" -> 2 [] OTHER -> 3

\* the key of the sort and the order of Python on such tuples
SortKey(x) == <<priority_order(x.priority), x.created_at>>

KeyBefore(a, b) == a[1] < b[1] \/ (a[1] = b[1] /\ a[2] < b[2])

\* x put into a list sorted in descending order of the key, behind the
\* elements whose key is not smaller
InsertReverse(s, x) ==
    LET ahead == {i \in 0..Len(s) :
                    \A j \in 1..i : ~KeyBefore(SortKey(s[j]), SortKey(x))}
        n == CHOOSE i \in ahead : \A k \in ahead : k <= i
    IN  SubSeq(s, 1, n) \o <<x>> \o SubSeq(s, n + 1, Len(s))

\* list.sort(key=..., reverse=True): descending and stable
RECURSIVE SortReverse(_)
SortReverse(s) ==
    IF s = <<>> THEN <<>>
    ELSE InsertReverse(SortReverse(SubSeq(s, 1, Len(s) - 1)), s[Len(s)])

\* SystemAlerts.get with no priority and no type filter: the alerts
\* sorted, then alerts[:limit]
SystemAlertsGet(al, limit) ==
    LET sorted == SortReverse(al)
        n == IF limit < Len(sorted) THEN limit ELSE Len(sorted)
    IN  Response(200, NoToken, NoToken, FALSE, SubSeq(sorted, 1, n))

GetAlerts ==
    \E access \in Cookies, q \in AlertQueries, self \in Addrs, sweep \in Sweeps :
      \E e \in JwtErrors(access, now) :
        LET r == [Request("GET", PathAlerts, access, jar.refresh, 0, NoBody)
                    EXCEPT !.query = q]
            h == enforce_jwt_protection(r.method, r.path, r.access, now)
            c0 == before_request(cache, sweep, now)
            out == IF h # 0 THEN <<Plain(h), c0>>
                   ELSE cache_query_result(c0, "system_alerts", self, 0, q,
                            r.access, SystemAlertsGet(alerts, ArgLimit(q)), now, e)
        IN  /\ Answer(r, out[1])
            /\ cache' = out[2]
            /\ UNCHANGED <<users, species, now, farm>>

\* a farm with some alerts pending, the administrator logged in
InitAlerts ==
    /\ users = <<Administrator>>
    /\ species = SeedSpecies
    /\ now = 0
    /\ jar = JarAfterLogin(users, 1, 0)
    /\ req = NoReq
    /\ resp = Plain(0)
    /\ cache = EmptyCache
    /\ Quiet
    /\ animals = SeedAnimals
    /\ breeds = SeedBreeds
    /\ vaccinations = <<>>
    /\ treatments = <<TreatmentRow(2, 0, 0)>>
    /\ animal_fields = <<AssignmentRow(1, 1, 0, NoDate)>>
    /\ fields = SeedFields
    /\ session = <<>>
    /\ alerts \in AlertLists

NextAlerts ==
    \/ GetAlerts
    \/ Tick

SpecAlerts == InitAlerts /\ [][NextAlerts]_vars

\* the alerts of s whose priority is p or higher
AtLeast(s, p) ==
    Cardinality({i \in 1..Len(s) :
                    priority_order(s[i].priority) <= priority_order(p)})

\* C30: the alerts endpoint returns the first limit alerts of the list
\* ordered from the highest priority to the lowest: the alerts returned
\* are in that order, and of every priority as many are returned as the
\* limit leaves room for after the higher ones
C30_HighestPriorityFirst ==
    [][(/\ req' # req
        /\ req'.path = PathAlerts
        /\ resp'.status = 200)
       => LET shown == resp'.data
              limit == ArgLimit(req'.query)
              n == IF limit < Len(alerts) THEN limit ELSE Len(alerts)
          IN  /\ Len(shown) = n
              /\ \A i, j \in 1..Len(shown) :
                    i < j => priority_order(shown[i].priority)
                                <= priority_order(shown[j].priority)
              /\ \A p \in {"high", "medium", "low"} :
                    AtLeast(shown, p)
                        = (IF n < AtLeast(alerts, p) THEN n ELSE AtLeast(alerts, p))]_vars

----------------------------------------------------------------------------
(* Updates of an animal that the handler's checks reject *)

NextPut ==
    \/ RejectedUpdate
    \/ Tick

SpecPut == InitHerd /\ [][NextPut]_vars

----------------------------------------------------------------------------
(* The paginated list endpoints *)

Statuses == {"Vivo", "Vendido", "Muerto"}

\* the least n with n * b >= a
Ceiling(a, b) == CHOOSE n \in 0..a : n * b >= a /\ (n = 0 \/ (n - 1) * b < a)

\* a JSON value: null, or the value wrapped
Null == <<>>

Json(v) == <<v>>

\* Query.paginate(page=, per_page=, error_out=False) of Flask-SQLAlchemy 3:
\* a page below 1 becomes 1, a per_page below 1 becomes 20, and pages is
\* 0 for an empty result and ceil(total / per_page) otherwise
paginate(rows, page, per_page) ==
    LET p == IF page < 1 THEN 1 ELSE page
        pp == IF per_page < 1 THEN 20 ELSE per_page
        total == Len(rows)
        pages == IF total = 0 THEN 0 ELSE Ceiling(total, pp)
        last == IF p * pp < total THEN p * pp ELSE total
    IN  [items |-> SubSeq(rows, (p - 1) * pp + 1, last), total |-> total,
         page |-> p, per_page |-> pp, pages |-> pages,
         has_next |-> p < pages, has_prev |-> p > 1]

\* the arguments of the query-string of a request to the animals list
ListArgs ==
    [sex : {"", "Hembra", "Macho", "Otro"}, status : {"", "Vivo", "Vendido", "Otro"},
     page : {1, 2}, per_page : {0, 1, 50}]

\* query.filter(Animals.sex == ...).filter(Animals.status == ...)
Filtered(an, sex, status) ==
    SelectSeq(an, LAMBDA row : /\ (sex = "" \/ row.sex = sex)
                               /\ (status = "" \/ row.status = status))

\* the body of AnimalList.get: the status it aborts with (0: none) and the
\* dict it returns
AnimalListGet(an, args) ==
    IF args.sex \notin Sexes \cup {""} \/ args.status \notin Statuses \cup {""}
    THEN [aborted |-> 400, pytype |-> "dict", value |-> Null]
    ELSE LET per_page == IF args.per_page < 100 THEN args.per_page ELSE 100
             pagination == paginate(Filtered(an, args.sex, args.status),
                                    args.page, per_page)
         IN  [aborted |-> 0, pytype |-> "dict",
              value |-> [animals |-> pagination.items, total |-> pagination.total,
                         page |-> pagination.page, per_page |-> pagination.per_page,
                         pages |-> pagination.pages]]

\* flask_restx.marshal(data, fields): every field of the model, read with
\* data[key] from a dict and with getattr(data, key, None) from an object
marshal(data, keys) ==
    [k \in keys |-> IF data.pytype = "dict" THEN Json(data.value[k]) ELSE Null]

\* the keys of animal_list_response_model the model follows
animal_list_response_model == {"animals", "total", "page", "per_page", "pages"}

\* what the driver hands back for GREATEST(COALESCE(MAX(created_at), ...))
\* in _get_table_last_modified: a datetime (also the COUNT fallback), or
\* the str MySQL makes of a DATETIME compared with a string literal
StampTypes == {"datetime", "str"}

\* AnimalList.get as routed: marshal_with around etag_cache around
\* jwt_required around the body.  With a datetime etag_cache answers the
\* object built by make_response(jsonify(data)), and that object is what
\* marshal_with is given; with a str last_modified.isoformat() raises, and
\* the except branch of etag_cache answers a second call of the body.  An
\* abort of the body is raised again by that second call
AnimalListView(an, client_etag, access, args, t, jwtError, stamp) ==
    LET last_modified == Len(an)
        result == AnimalListGet(an, args)
        response == IF stamp = "datetime"
                    THEN [pytype |-> "Response", value |-> result.value]
                    ELSE result
    IN  IF ~_check_if_modified(NoTimestamps, last_modified, client_etag)
        THEN [Plain(304) EXCEPT !.etag = client_etag]
        ELSE IF ~DecodesAs(access, "access", t) THEN Plain(jwtError)
        ELSE IF result.aborted # 0 THEN Plain(500)
        ELSE Response(200, NoToken, NoToken, FALSE,
                      marshal(response, animal_list_response_model))

ListAnimals ==
    \E access \in Cookies, args \in ListArgs, stamp \in StampTypes, sweep \in Sweeps :
      \E e \in JwtErrors(access, now) :
        LET r == Request("GET", PathAnimals, access, jar.refresh, 0, args)
            h == enforce_jwt_protection(r.method, r.path, r.access, now)
        IN  /\ Answer(r, IF h # 0 THEN Plain(h)
                         ELSE AnimalListView(animals, r.if_none_match, r.access,
                                             r.body, now, e, stamp))
            /\ cache' = before_request(cache, sweep, now)
            /\ UNCHANGED <<users, species, now, farm>>

Cow(status) == [AnimalRow("Hembra", 0, 1, "A-002", 1, Absent, Absent)
                    EXCEPT !.status = status]

Bull(status) == [AnimalRow("Macho", 0, 1, "A-001", 1, Absent, Absent)
                    EXCEPT !.status = status]

\* the herds the lists are read from
ListHerds ==
    {<<>>, <<Bull("Vivo"), Cow("Vivo"), Cow("Vendido")>>,
     <<Cow("Vivo"), Cow("Vivo"), Bull("Muerto")>>}

InitList ==
    /\ users = <<Administrator>>
    /\ species = SeedSpecies
    /\ now = 0
    /\ jar = JarAfterLogin(users, 1, 0)
    /\ req = NoReq
    /\ resp = Plain(0)
    /\ cache = EmptyCache
    /\ Quiet
    /\ animals \in ListHerds
    /\ breeds = SeedBreeds
    /\ vaccinations = <<>>
    /\ treatments = <<TreatmentRow(2, 0, 0)>>
    /\ animal_fields = <<AssignmentRow(1, 1, 0, NoDate)>>
    /\ fields = SeedFields
    /\ session = <<>>
    /\ alerts = <<>>

NextList ==
    \/ ListAnimals
    \/ Tick

SpecList == InitList /\ [][NextList]_vars

\* C23: in the response of a paginated list the pagination fields are
\* consistent: the number of pages is ceil(total / per_page), whatever page
\* and per_page the request asked for
C23_PagesConsistent ==
    [][(/\ req' # req /\ req'.path = PathAnimals /\ req'.method = "GET"
        /\ resp'.status = 200)
       => LET d == resp'.data IN
          /\ d.total # Null /\ d.per_page # Null
          /\ d.pages = Json(Ceiling(d.total[1], d.per_page[1]))]_vars

\* C24: a list of the animals filtered by sex and status is answered with
\* only the animals of that sex and status, and total is their number
C24_FilteredList ==
    [][(/\ req' # req /\ req'.path = PathAnimals /\ req'.method = "GET"
        /\ resp'.status = 200
        /\ req'.body.sex \in Sexes /\ req'.body.status \in Statuses)
       => LET d == resp'.data
              matching == {i \in 1..Len(animals) :
                             /\ animals[i].sex = req'.body.sex
                             /\ animals[i].status = req'.body.status}
          IN  /\ d.animals # Null /\ d.total # Null
              /\ \A i \in 1..Len(d.animals[1]) :
                    /\ d.animals[1][i].sex = req'.body.sex
                    /\ d.animals[1][i].status = req'.body.status
              /\ d.total[1] = Cardinality(matching)]_vars

====
